---- MODULE Spec2Model ----
(***************************************************************************)
(* Render Commander: background-render dispatcher.                         *)
(*                                                                         *)
(* Model of RECOM_OT_BackgroundRender (operators/render/                   *)
(* background_render.py): the frame partitioners of the parallel render    *)
(* paths, the timer-driven launch chain, the generated worker scripts      *)
(* with their marker-file barrier, and the Cycles device resolution.       *)
(*                                                                         *)
(* Three specifications share this module:                                 *)
(*   SpecP  the two split partitioners applied to bounded inputs           *)
(*   Spec   one parallel job: launch chain, worker processes, barrier      *)
(*   SpecD  device resolution and dispatch of _execute_cycles_render       *)
(***************************************************************************)
EXTENDS Integers, Sequences, FiniteSets, TLC

(***************************************************************************)
(* Bounds                                                                  *)
(***************************************************************************)
\* largest frame number of a frame list
MaxListFrame == 7
\* largest frame number of a frame range
MaxFrame == 10
\* largest frame step of a frame range
MaxStep == 3
\* largest number of selected devices handed to a partitioner
MaxDev == 4
\* largest frame number of the frame list or range of a launched job
MaxJobFrame == 3
\* largest number of selected devices of a launched job
MaxJobDev == 3
\* number of GPU entries of the configured CUDA backend in prefs.devices
MaxGpu == 2
\* largest length of a typed frame-list string
MaxStrLen == 3
\* largest number of entries of prefs.additional_scripts
MaxHooks == 3

Min(a, b) == IF a < b THEN a ELSE b

(***************************************************************************)
(* Pure helpers of the partitioners                                        *)
(***************************************************************************)

\* helpers.py parse_frame_string, last line: sorted(frames) of a set
RECURSIVE sorted(_)
sorted(S) ==
    IF S = {} THEN <<>>
    ELSE LET m == CHOOSE x \in S : \A y \in S : x <= y
         IN  <<m>> \o sorted(S \ {m})

\* num_devices = min(len(selected_devices), total_frames)
NumDevices_AllSelected(n_sel, total_frames) == n_sel

NumDevices(n_sel, total_frames) == Min(n_sel, total_frames)

\* Python slice frames[current_start:current_end] (0-based, half-open)
Slice(frames, current_start, current_end) ==
    SubSeq(frames, current_start + 1, Min(current_end, Len(frames)))

\* total_frames = (frame_end - frame_start) // frame_step + 1
RangeTotalFrames(frame_start, frame_end, frame_step) ==
    (frame_end - frame_start) \div frame_step + 1

\* the frames Blender renders for scene.frame_start/frame_end/frame_step:
\* frame_start, frame_start + step, ... while <= frame_end
RangeFrames(frame_start, frame_end, frame_step) ==
    { f \in frame_start..frame_end : (f - frame_start) % frame_step = 0 }

\* validate_frame_range: "ok", or the way it rejects
validate_frame_range(start, end, step) ==
    IF start >= end
    THEN (IF start = end THEN "equal" ELSE "raise")
    ELSE IF step <= 0 THEN "raise" ELSE "ok"

(***************************************************************************)
(* Frame-list split: for i in range(num_devices) loop                      *)
(***************************************************************************)
RECURSIVE ListSplitLoop_SkipFrame(_, _, _, _, _, _)
ListSplitLoop_SkipFrame(frames, frames_per_device, remainder, num_devices, i, current_start) ==
    IF i >= num_devices THEN <<>>
    ELSE LET current_end == current_start + frames_per_device
                            + (IF i < remainder THEN 1 ELSE 0)
         IN  <<Slice(frames, current_start, current_end)>>
             \o ListSplitLoop_SkipFrame(frames, frames_per_device, remainder,
                                        num_devices, i + 1, current_end + 1)

RECURSIVE ListSplitLoop(_, _, _, _, _, _)
ListSplitLoop(frames, frames_per_device, remainder, num_devices, i, current_start) ==
    IF i >= num_devices THEN <<>>
    ELSE LET current_end == current_start + frames_per_device
                            + (IF i < remainder THEN 1 ELSE 0)
         IN  <<Slice(frames, current_start, current_end)>>
             \o ListSplitLoop(frames, frames_per_device, remainder,
                              num_devices, i + 1, current_end)

\* device_ranges of _execute_frame_list_parallel_render (device_parallel on)
ListDeviceRanges(frames, n_sel) ==
    LET total_frames == Len(frames)
        num_devices  == NumDevices(n_sel, total_frames)
    IN  ListSplitLoop(frames, total_frames \div num_devices,
                      total_frames % num_devices, num_devices, 0, 0)

(***************************************************************************)
(* Frame-range split (FRAME_SPLIT): for i in range(num_devices) loop       *)
(***************************************************************************)
RECURSIVE RangeSplitLoop_Overlap(_, _, _, _, _, _)
RangeSplitLoop_Overlap(frames_per_device, remainder, num_devices, frame_step, i, current_start) ==
    IF i >= num_devices THEN <<>>
    ELSE LET current_end == current_start + (frames_per_device - 1) * frame_step
                            + (IF i < remainder THEN frame_step ELSE 0)
         IN  << <<current_start, current_end>> >>
             \o RangeSplitLoop_Overlap(frames_per_device, remainder, num_devices,
                                       frame_step, i + 1, current_end)

RECURSIVE RangeSplitLoop_TailRemainder(_, _, _, _, _, _)
RangeSplitLoop_TailRemainder(frames_per_device, remainder, num_devices, frame_step, i, current_start) ==
    IF i >= num_devices THEN <<>>
    ELSE LET current_end == current_start + (frames_per_device - 1) * frame_step
                            + (IF i >= num_devices - remainder THEN frame_step ELSE 0)
         IN  << <<current_start, current_end>> >>
             \o RangeSplitLoop_TailRemainder(frames_per_device, remainder, num_devices,
                                             frame_step, i + 1, current_end + frame_step)

RECURSIVE RangeSplitLoop(_, _, _, _, _, _)
RangeSplitLoop(frames_per_device, remainder, num_devices, frame_step, i, current_start) ==
    IF i >= num_devices THEN <<>>
    ELSE LET current_end == current_start + (frames_per_device - 1) * frame_step
                            + (IF i < remainder THEN frame_step ELSE 0)
         IN  << <<current_start, current_end>> >>
             \o RangeSplitLoop(frames_per_device, remainder, num_devices,
                               frame_step, i + 1, current_end + frame_step)

\* device_ranges of _execute_sequence_parallel_render under FRAME_SPLIT
RangeDeviceRanges(frame_start, frame_end, frame_step, n_sel) ==
    LET total_frames == RangeTotalFrames(frame_start, frame_end, frame_step)
        num_devices  == NumDevices(n_sel, total_frames)
    IN  RangeSplitLoop(total_frames \div num_devices, total_frames % num_devices,
                       num_devices, frame_step, 0, frame_start)

(***************************************************************************)
(* State                                                                   *)
(***************************************************************************)
VARIABLES
    \* ---- SpecP: one partitioner call ----
    p_kind,          \* "list" | "range": which partitioner is called
    p_frames,        \* frames = parse_frame_string(settings.frame_list)
    p_range,         \* <<frame_start, frame_end, frame_step>> of the request
    p_selected,      \* len(selected_devices)
    p_pc,            \* "request" | "split" | "cancelled"
    p_num_devices,   \* num_devices computed by the call
    p_device_ranges  \* device_ranges computed by the call

pvars == <<p_kind, p_frames, p_range, p_selected, p_pc, p_num_devices, p_device_ranges>>

VARIABLES
    \* ---- Spec: one parallel job ----
    prefs,              \* addon preferences read by the render paths
    scene_range,        \* <<frame_start, frame_end, frame_step>> of the scene
    frame_list,         \* parse_frame_string(settings.frame_list)
    n_selected,         \* len(selected_devices) handed to the parallel path
    op_result,          \* what execute() returned: "none" | "FINISHED"
    path_result,        \* what _execute_*_parallel_render returned
    job_kind,           \* "none" | "SEQ" | "LIST": which closure is live
    job_i,              \* nonlocal i of process_next_device
    job_num_devices,    \* num_devices of the closure
    job_device_ranges,  \* device_ranges of the closure
    timer,              \* process_next_device is registered with bpy.app.timers
    chain_error,        \* a process_next_device call ended in an exception
    scripts,            \* worker scripts generated so far, in order
    script_files,       \* positions in scripts whose file is in the temp dir
    procs,              \* launched worker processes, in launch order
    launched,           \* launch log: [i, via] per successful launch
    markers,            \* marker files {job_id}_process_m present in temp dir
    create_count,       \* per marker: number of open(temp_file, 'w') calls
    created_by,         \* per marker: process indices that created it
    deleted_by,         \* process indices that unlinked a marker
    shutdown_by         \* process indices that issued the shutdown command

jvars == <<prefs, scene_range, frame_list, n_selected, op_result, path_result,
           job_kind, job_i, job_num_devices, job_device_ranges, timer,
           chain_error, scripts, script_files, procs, launched, markers,
           create_count, created_by, deleted_by, shutdown_by>>

VARIABLES
    \* ---- SpecD: device resolution of one Cycles request ----
    d_request,        \* prefs and prefs.devices as they were when the request started
    d_prefs,          \* addon preferences the device code reads and writes
    d_devices,        \* prefs.devices: sequence of [id, type, use]
    d_cycles_device,  \* cycles_device: "GPU" | "CPU"
    d_total_frames,   \* number of frames of the request's domain
    d_pc,             \* "request" | "chain" | "done"
    d_path,           \* "none" | "single" | "seq_parallel" | "list_parallel"
    d_selected,       \* selected_devices handed to the chosen path
    d_num_devices,    \* num_devices of the parallel closure
    d_i,              \* nonlocal i of the parallel closure
    d_workers,        \* device_ids of every worker script generated so far
    d_warned          \* "No devices selected. Fallback to CPU." was reported

dvars == <<d_request, d_prefs, d_devices, d_cycles_device, d_total_frames, d_pc,
           d_path, d_selected, d_num_devices, d_i, d_workers, d_warned>>

VARIABLES
    \* ---- SpecE: one render request through execute() ----
    e_settings,     \* recom_render_settings and scene facts read by the request
    e_render_id,    \* number of job ids generated (settings.render_id is the last)
    e_history,      \* prefs.render_history: render ids, newest first
    e_button,       \* settings.disable_render_button
    e_reset_timer,  \* reset_button_state is registered with bpy.app.timers
    e_reports       \* self.report levels of the request, in order

evars == <<e_settings, e_render_id, e_history, e_button, e_reset_timer, e_reports>>

VARIABLES
    \* ---- SpecC: the command line of one worker launch ----
    c_prefs,        \* prefs fields read by _launch_render_process
    c_files,        \* absolute paths for which Path.is_file() holds
    c_pc,           \* "ready" | "launched" | "raised"
    cmd_list        \* the argument list handed to the process launch

cvars == <<c_prefs, c_files, c_pc, cmd_list>>

VARIABLES
    \* ---- SpecS: a launch chain while the user keeps working ----
    s_prefs,        \* the live addon preferences the closure reads at each call
    s_render_id,    \* the live settings.render_id: number of job ids generated
    s_button,       \* settings.disable_render_button
    s_num_devices,  \* num_devices of the closure (0: no chain)
    s_i,            \* nonlocal i of the closure
    s_timer,        \* process_next_device is registered with bpy.app.timers
    s_scripts       \* what each generated worker script embeds, in order

svars == <<s_prefs, s_render_id, s_button, s_num_devices, s_i, s_timer, s_scripts>>

VARIABLES
    \* ---- SpecO: the overrides written into a worker script ----
    o_settings,     \* the override flags of settings.override_settings
    o_engine,       \* get_render_engine(context)
    o_path,         \* the render path, its launch mode, CPU thread limit in force
    o_pc,           \* "ready" | "done"
    o_script        \* the scene attributes the generated script assigns

ovars == <<o_settings, o_engine, o_path, o_pc, o_script>>

VARIABLES
    \* ---- SpecX: reading the scene of an external blend file ----
    x_path,         \* settings.external_blend_file_path
    x_info,         \* settings.external_scene_info, decoded
    x_loaded,       \* settings.is_scene_info_loaded
    x_threads,      \* the extraction threads and their pending timers
    x_launched,     \* blend file and scene info of the last render launched
    x_result        \* what the last operator returned

xvars == <<x_path, x_info, x_loaded, x_threads, x_launched, x_result>>

VARIABLES
    \* ---- SpecH: the render history of the preferences ----
    h_history,      \* prefs.render_history: the date of each entry, in order
    h_active,       \* prefs.active_render_history_index
    h_clock,        \* the date of the newest entry ever written
    h_requests,     \* render requests made
    h_removals      \* entries removed by the user

hvars == <<h_history, h_active, h_clock, h_requests, h_removals>>

VARIABLES
    \* ---- SpecA: the list of scripts appended to a render ----
    a_scripts,      \* prefs.additional_scripts
    a_active,       \* prefs.active_script_index
    a_result        \* what the last list operator returned

avars == <<a_scripts, a_active, a_result>>

\* the variables of the specifications that follow SpecC
nvars == <<svars, ovars, xvars, hvars, avars>>

\* what a specification after SpecC leaves alone besides its own variables
restS == <<ovars, xvars, hvars, avars>>
restO == <<svars, xvars, hvars, avars>>
restX == <<svars, ovars, hvars, avars>>
restH == <<svars, ovars, xvars, avars>>
restA == <<svars, ovars, xvars, hvars>>

vars == <<pvars, jvars, dvars, evars, cvars, nvars>>

DefaultDevicePrefs ==
    [compute_device_type |-> "NONE", multiple_backends |-> FALSE,
     device_parallel |-> TRUE, combine_cpu_with_gpus |-> TRUE,
     launch_mode |-> "SINGLE_FRAME"]

\* the device-resolution variables when no request is modelled
DevIdle ==
    /\ d_request = [prefs |-> DefaultDevicePrefs, devices |-> <<>>]
    /\ d_prefs = DefaultDevicePrefs /\ d_devices = <<>>
    /\ d_cycles_device = "CPU" /\ d_total_frames = 1
    /\ d_pc = "done" /\ d_path = "none" /\ d_selected = <<>>
    /\ d_num_devices = 0 /\ d_i = 0 /\ d_workers = <<>> /\ d_warned = FALSE

\* the job variables before any request
JobIdle ==
    /\ op_result = "none" /\ path_result = "none"
    /\ job_kind = "none" /\ job_i = 0 /\ job_num_devices = 0
    /\ job_device_ranges = <<>>
    /\ timer = FALSE /\ chain_error = FALSE
    /\ scripts = <<>> /\ script_files = {} /\ procs = <<>> /\ launched = <<>>
    /\ markers = {}
    /\ create_count = [m \in 0..MaxJobDev |-> 0]
    /\ created_by = [m \in 0..MaxJobDev |-> {}]
    /\ deleted_by = {} /\ shutdown_by = {}

DefaultPrefs ==
    [launch_mode |-> "SINGLE_FRAME", frame_allocation |-> "FRAME_SPLIT",
     set_system_power |-> FALSE, prevent_sleep |-> TRUE,
     shutdown_after_render |-> FALSE, send_desktop_notifications |-> FALSE]

\* property defaults of RECOM_PG_RenderSettings, with a saved scene that has
\* a camera and renders stills with Cycles
DefaultSettings ==
    [use_external_blend |-> FALSE, blend_is_file |-> FALSE, scene_info |-> "braces",
     filepath_saved |-> TRUE, auto_save |-> "off", file_format_override |-> FALSE,
     is_movie_format |-> FALSE, camera |-> TRUE, frame_list |-> <<>>,
     frame_current |-> 1, engine |-> "CYCLES"]

\* the request variables when no request through execute() is modelled
ReqIdle ==
    /\ e_settings = DefaultSettings
    /\ e_render_id = 0 /\ e_history = <<>>
    /\ e_button = FALSE /\ e_reset_timer = FALSE /\ e_reports = <<>>

\* preferences defaults read by the process launch (preferences.py)
DefaultLaunchPrefs ==
    [custom_executable |-> FALSE, executable_is_file |-> TRUE,
     append_python_scripts |-> FALSE, additional_scripts |-> <<>>,
     add_command_line_args |-> FALSE, custom_command_line_args |-> <<>>]

\* the launch variables when no launch is modelled
CmdIdle ==
    /\ c_prefs = DefaultLaunchPrefs /\ c_files = {}
    /\ c_pc = "launched" /\ cmd_list = <<>>

\* preferences defaults read while a chain generates scripts
DefaultChainPrefs ==
    [set_system_power |-> FALSE, prevent_sleep |-> TRUE,
     shutdown_after_render |-> FALSE, send_desktop_notifications |-> FALSE,
     use_custom_temp |-> FALSE]

\* the chain variables of SpecS when no chain is modelled
ChainIdle ==
    /\ s_prefs = DefaultChainPrefs /\ s_render_id = 0 /\ s_button = FALSE
    /\ s_num_devices = 0 /\ s_i = 0 /\ s_timer = FALSE /\ s_scripts = <<>>

\* property defaults of RECOM_PG_OverrideSettings: the override flags
DefaultOverrides ==
    [motion_blur_override |-> FALSE, frame_range_override |-> FALSE,
     format_override |-> FALSE, resolution_override |-> TRUE,
     camera_shift |-> FALSE, use_overscan |-> FALSE,
     file_format_override |-> FALSE, compositor_override |-> FALSE,
     device_override |-> FALSE, sampling_override |-> FALSE,
     light_path_override |-> FALSE, performance_override |-> FALSE,
     eevee_override |-> FALSE]

\* the script variables of SpecO when no script is modelled
OverridesIdle ==
    /\ o_settings = DefaultOverrides /\ o_engine = "CYCLES"
    /\ o_path = [kind |-> "single", launch_mode |-> "SINGLE_FRAME", cpu_threads |-> FALSE]
    /\ o_pc = "done" /\ o_script = {}

\* the variables of the specifications that follow SpecC, idle
\* bound: extraction threads alive at the same time
MaxExtractions == 2

\* no external blend file selected, no scene read
ExternalIdle ==
    /\ x_path = "" /\ x_info = [kind |-> "empty"] /\ x_loaded = TRUE
    /\ x_threads = [t \in 1..MaxExtractions |-> [state |-> "idle"]]
    /\ x_launched = [kind |-> "none"] /\ x_result = "none"

\* an empty render history
HistoryIdle ==
    /\ h_history = <<>> /\ h_active = -1 /\ h_clock = 0
    /\ h_requests = 0 /\ h_removals = 0

\* an empty script list
ScriptsIdle ==
    /\ a_scripts = <<>> /\ a_active = 0 /\ a_result = "none"

NewIdle == ChainIdle /\ OverridesIdle /\ ExternalIdle /\ HistoryIdle /\ ScriptsIdle

\* the partitioner-call variables when no call is modelled
PartIdle ==
    /\ p_kind = "list" /\ p_frames = <<>> /\ p_range = <<0, 0, 1>>
    /\ p_selected = 2 /\ p_pc = "cancelled" /\ p_num_devices = 0
    /\ p_device_ranges = <<>>

(***************************************************************************)
(* SpecP: the partitioners on bounded inputs                               *)
(***************************************************************************)
InitP ==
    /\ prefs = DefaultPrefs /\ scene_range = <<0, 0, 1>> /\ frame_list = <<>>
    /\ n_selected = 2 /\ JobIdle /\ DevIdle /\ ReqIdle /\ CmdIdle /\ NewIdle
    /\ p_kind \in {"list", "range"}
    /\ p_pc = "request"
    /\ p_selected \in 2..MaxDev
    /\ p_num_devices = 0
    /\ p_device_ranges = <<>>
    /\ \/ /\ p_kind = "list"
          /\ \E S \in SUBSET (1..MaxListFrame) : p_frames = sorted(S)
          /\ p_range = <<0, 0, 1>>
       \/ /\ p_kind = "range"
          /\ p_frames = <<>>
          /\ \E s \in 0..MaxFrame, e \in 0..MaxFrame, st \in 0..MaxStep :
                p_range = <<s, e, st>>

\* _execute_frame_list_parallel_render, lines 893-938, frames present
SplitFrameList ==
    /\ p_pc = "request" /\ p_kind = "list"
    /\ p_frames # <<>>
    /\ p_num_devices' = NumDevices(p_selected, Len(p_frames))
    /\ p_device_ranges' = ListDeviceRanges(p_frames, p_selected)
    /\ p_pc' = "split"
    /\ UNCHANGED <<p_kind, p_frames, p_range, p_selected, jvars, dvars, evars, cvars, nvars>>

\* _execute_frame_list_parallel_render, lines 893-896: no frames
RejectFrameList ==
    /\ p_pc = "request" /\ p_kind = "list"
    /\ p_frames = <<>>
    /\ p_pc' = "cancelled"
    /\ UNCHANGED <<p_kind, p_frames, p_range, p_selected, p_num_devices, p_device_ranges, jvars, dvars, evars, cvars, nvars>>

\* _execute_sequence_parallel_render, lines 623-667, valid range
SplitFrameRange ==
    /\ p_pc = "request" /\ p_kind = "range"
    /\ validate_frame_range(p_range[1], p_range[2], p_range[3]) = "ok"
    /\ p_num_devices' = NumDevices(p_selected, RangeTotalFrames(p_range[1], p_range[2], p_range[3]))
    /\ p_device_ranges' = RangeDeviceRanges(p_range[1], p_range[2], p_range[3], p_selected)
    /\ p_pc' = "split"
    /\ UNCHANGED <<p_kind, p_frames, p_range, p_selected, jvars, dvars, evars, cvars, nvars>>

\* _execute_sequence_parallel_render, lines 623-631: range rejected
RejectFrameRange ==
    /\ p_pc = "request" /\ p_kind = "range"
    /\ validate_frame_range(p_range[1], p_range[2], p_range[3]) # "ok"
    /\ p_pc' = "cancelled"
    /\ UNCHANGED <<p_kind, p_frames, p_range, p_selected, p_num_devices, p_device_ranges, jvars, dvars, evars, cvars, nvars>>

NextP == SplitFrameList \/ RejectFrameList \/ SplitFrameRange \/ RejectFrameRange

SpecP == InitP /\ [][NextP]_vars

(***************************************************************************)
(* Worker script generation (process_next_device, both parallel paths)     *)
(***************************************************************************)

\* lines 814-820 / 1064-1070: the marker block is added to the script
\* (prevent_sleep stands for prevent_sleep or prevent_monitor_off)
SyncRequired(p) ==
    \/ p.set_system_power /\ (p.prevent_sleep \/ p.shutdown_after_render)
    \/ p.send_desktop_notifications

\* temp_file = temp_dir / f'{render_id}_process_{process_num}'
MarkerOf_Zero(process_num) == 0

MarkerOf(process_num) == process_num

\* "if i == 0": the wait-for-all block and the shutdown go to the first process
WaitBlockFor(ci) == ci = 0

\* num_processes argument of _add_wait_for_all_processes
NumProcessesArg_Own(nd, n_sel) == 1

NumProcessesArg_Selected(nd, n_sel) == n_sel

NumProcessesArg(nd, n_sel) == nd

\* "i += 1" at the end of process_next_device
NextIndex_Same(ci) == ci

NextIndex(ci) == ci + 1

\* script lines appended in the Sequential branch
SequentialFlags_Copied == [use_overwrite |-> "True", use_placeholder |-> "False"]

SequentialFlags == [use_overwrite |-> "False", use_placeholder |-> "True"]

\* script lines appended in the Frame split branch
SplitFlags == [use_overwrite |-> "True", use_placeholder |-> "False"]

\* worker script of _execute_sequence_parallel_render.process_next_device
SeqScript(p, ci, nd, dr, rng, n_sel) ==
    LET split == p.frame_allocation = "FRAME_SPLIT"
        flags == IF split THEN SplitFlags ELSE SequentialFlags
    IN  [i              |-> ci,
         is_animation   |-> TRUE,
         frame_start    |-> IF split THEN dr[ci + 1][1] ELSE rng[1],
         frame_end      |-> IF split THEN dr[ci + 1][2] ELSE rng[2],
         frame_step     |-> rng[3],
         frames         |-> <<>>,
         use_overwrite  |-> flags.use_overwrite,
         use_placeholder|-> flags.use_placeholder,
         renders        |-> 1,
         creates_marker |-> SyncRequired(p),
         marker         |-> MarkerOf(ci),
         waits          |-> SyncRequired(p) /\ WaitBlockFor(ci),
         num_processes  |-> NumProcessesArg(nd, n_sel),
         shutdown       |-> /\ SyncRequired(p) /\ WaitBlockFor(ci)
                            /\ p.set_system_power /\ p.shutdown_after_render]

\* worker script of _execute_frame_list_parallel_render.process_next_device
ListScript(p, ci, nd, dr, n_sel) ==
    LET dev_frames == dr[ci + 1]
    IN  [i              |-> ci,
         is_animation   |-> FALSE,
         frame_start    |-> dev_frames[1],
         frame_end      |-> dev_frames[Len(dev_frames)],
         frame_step     |-> 1,
         frames         |-> dev_frames,
         use_overwrite  |-> "unset",
         use_placeholder|-> "unset",
         renders        |-> Len(dev_frames),
         creates_marker |-> SyncRequired(p),
         marker         |-> MarkerOf(ci),
         waits          |-> SyncRequired(p) /\ WaitBlockFor(ci),
         num_processes  |-> NumProcessesArg(nd, n_sel),
         shutdown       |-> /\ SyncRequired(p) /\ WaitBlockFor(ci)
                            /\ p.set_system_power /\ p.shutdown_after_render]

(***************************************************************************)
(* process_next_device: one call, inline from the request or from a timer  *)
(***************************************************************************)

\* the call returns without generating anything
ChainReturn ==
    /\ timer' = FALSE
    /\ UNCHANGED <<job_i, chain_error, scripts, script_files, procs, launched>>

\* script written, then _launch_render_process succeeds (ok) or raises
LaunchStep(script, ci, via, ok) ==
    /\ scripts' = Append(scripts, script)
    /\ chain_error' = chain_error
    /\ IF ok
       THEN /\ procs' = Append(procs, [script |-> script,
                                       file   |-> Len(scripts) + 1,
                                       pc     |-> "render",
                                       left   |-> script.renders,
                                       k      |-> 0])
            /\ launched' = Append(launched, [i |-> ci, via |-> via])
            /\ script_files' = script_files \cup {Len(scripts) + 1}
            /\ timer' = (ci < n_selected - 1)
            /\ job_i' = NextIndex(ci)
       ELSE \* temp_script_path.unlink(missing_ok=True); return {"CANCELLED"}
            /\ UNCHANGED <<procs, launched, script_files, job_i>>
            /\ timer' = FALSE

SeqProcessNextDevice(p, ci, nd, dr, rng, via, ok) ==
    IF ci >= nd
    THEN ChainReturn
    ELSE LaunchStep(SeqScript(p, ci, nd, dr, rng, n_selected), ci, via, ok)

ListProcessNextDevice(p, ci, nd, dr, via, ok) ==
    IF ci >= n_selected
    THEN ChainReturn
    ELSE IF ci >= Len(dr)
    THEN \* dev_frames = device_ranges[i] raises IndexError
         /\ chain_error' = TRUE
         /\ timer' = FALSE
         /\ UNCHANGED <<job_i, scripts, script_files, procs, launched>>
    ELSE IF dr[ci + 1] = <<>>
    THEN \* "has no frames to render. Skipping."
         /\ job_i' = ci + 1
         /\ timer' = FALSE
         /\ UNCHANGED <<chain_error, scripts, script_files, procs, launched>>
    ELSE LaunchStep(ListScript(p, ci, nd, dr, n_selected), ci, via, ok)

(***************************************************************************)
(* Spec: one parallel render request and the processes it starts           *)
(***************************************************************************)
Init ==
    /\ PartIdle
    /\ JobIdle
    /\ DevIdle
    /\ ReqIdle /\ CmdIdle /\ NewIdle
    /\ n_selected \in 2..MaxJobDev
    /\ \E mode \in {"SEQ", "LIST"},
          alloc \in {"SEQUENTIAL", "FRAME_SPLIT"},
          power \in BOOLEAN, sleep \in BOOLEAN, shut \in BOOLEAN, notif \in BOOLEAN :
          /\ prefs = [launch_mode |-> mode, frame_allocation |-> alloc,
                      set_system_power |-> power, prevent_sleep |-> sleep,
                      shutdown_after_render |-> shut,
                      send_desktop_notifications |-> notif]
          \* the frame-list path never reads frame_allocation
          /\ mode = "LIST" => alloc = "FRAME_SPLIT"
          /\ IF mode = "SEQ"
             THEN /\ frame_list = <<>>
                  /\ \E s \in 1..2, e \in 1..MaxJobFrame, st \in 1..2 :
                        scene_range = <<s, e, st>>
             ELSE /\ scene_range = <<1, 1, 1>>
                  /\ \E S \in SUBSET (1..MaxJobFrame) : frame_list = sorted(S)

workerVars == <<markers, create_count, created_by, deleted_by, shutdown_by>>
inputVars == <<scene_range, frame_list, n_selected>>

\* execute() -> _execute_cycles_render -> _execute_sequence_parallel_render,
\* frame range accepted: partition, first process_next_device(), FINISHED
ExecuteSequenceParallel ==
    /\ op_result = "none" /\ prefs.launch_mode = "SEQ"
    /\ validate_frame_range(scene_range[1], scene_range[2], scene_range[3]) = "ok"
    /\ LET total_frames == RangeTotalFrames(scene_range[1], scene_range[2], scene_range[3])
           nd == NumDevices(n_selected, total_frames)
           dr == IF prefs.frame_allocation = "FRAME_SPLIT"
                 THEN RangeDeviceRanges(scene_range[1], scene_range[2],
                                        scene_range[3], n_selected)
                 ELSE <<>>
       IN  /\ job_kind' = "SEQ"
           /\ job_num_devices' = nd
           /\ job_device_ranges' = dr
           /\ \E ok \in BOOLEAN :
                 SeqProcessNextDevice(prefs, 0, nd, dr, scene_range, "call", ok)
    /\ path_result' = "FINISHED"
    /\ op_result' = "FINISHED"
    /\ UNCHANGED <<prefs, inputVars, workerVars, pvars, dvars, evars, cvars, nvars>>

\* _execute_sequence_parallel_render, lines 623-631: _get_frame_settings
\* rejects the range; execute() drops the CANCELLED and returns FINISHED
ExecuteSequenceRejected ==
    /\ op_result = "none" /\ prefs.launch_mode = "SEQ"
    /\ LET v == validate_frame_range(scene_range[1], scene_range[2], scene_range[3])
       IN  /\ v # "ok"
           /\ prefs' = IF v = "equal"
                       THEN [prefs EXCEPT !.launch_mode = "SINGLE_FRAME"]
                       ELSE prefs
    /\ path_result' = "CANCELLED"
    /\ op_result' = "FINISHED"
    /\ UNCHANGED <<inputVars, job_kind, job_i, job_num_devices, job_device_ranges,
                   timer, chain_error, scripts, script_files, procs, launched,
                   workerVars, pvars, dvars, evars, cvars, nvars>>

\* execute() -> _execute_frame_list_parallel_render with frames
ExecuteFrameListParallel ==
    /\ op_result = "none" /\ prefs.launch_mode = "LIST"
    /\ frame_list # <<>>
    /\ LET nd == NumDevices(n_selected, Len(frame_list))
           dr == ListDeviceRanges(frame_list, n_selected)
       IN  /\ job_kind' = "LIST"
           /\ job_num_devices' = nd
           /\ job_device_ranges' = dr
           /\ \E ok \in BOOLEAN :
                 ListProcessNextDevice(prefs, 0, nd, dr, "call", ok)
    /\ path_result' = "FINISHED"
    /\ op_result' = "FINISHED"
    /\ UNCHANGED <<prefs, inputVars, workerVars, pvars, dvars, evars, cvars, nvars>>

\* _execute_frame_list_parallel_render, lines 893-896: no frames
ExecuteFrameListRejected ==
    /\ op_result = "none" /\ prefs.launch_mode = "LIST"
    /\ frame_list = <<>>
    /\ path_result' = "CANCELLED"
    /\ op_result' = "FINISHED"
    /\ UNCHANGED <<prefs, inputVars, job_kind, job_i, job_num_devices,
                   job_device_ranges, timer, chain_error, scripts, script_files,
                   procs, launched, workerVars, pvars, dvars, evars, cvars, nvars>>

\* bpy.app.timers runs the registered process_next_device
TimerProcessNextDevice ==
    /\ timer
    /\ \E ok \in BOOLEAN :
          IF job_kind = "SEQ"
          THEN SeqProcessNextDevice(prefs, job_i, job_num_devices,
                                    job_device_ranges, scene_range, "timer", ok)
          ELSE ListProcessNextDevice(prefs, job_i, job_num_devices,
                                     job_device_ranges, "timer", ok)
    /\ UNCHANGED <<prefs, inputVars, op_result, path_result, job_kind,
                   job_num_devices, job_device_ranges, workerVars, pvars, dvars, evars, cvars, nvars>>

(***************************************************************************)
(* A worker process executing its generated script                         *)
(***************************************************************************)
hostVars == <<prefs, inputVars, op_result, path_result, job_kind, job_i,
              job_num_devices, job_device_ranges, timer, chain_error, scripts,
              launched>>

\* one bpy.ops.render.render(...) call returns
WorkerRender(w) ==
    /\ procs[w].pc = "render"
    /\ procs' = [procs EXCEPT
                   ![w].left = @ - 1,
                   ![w].pc = IF procs[w].left > 1 THEN "render"
                             ELSE IF procs[w].script.creates_marker THEN "marker"
                             ELSE "exit"]
    /\ UNCHANGED <<hostVars, script_files, workerVars, pvars, dvars, evars, cvars, nvars>>

\* "# Create temp files": with open(temp_file, 'w')
WorkerCreateMarker(w) ==
    /\ procs[w].pc = "marker"
    /\ LET m == procs[w].script.marker
       IN  /\ markers' = markers \cup {m}
           /\ create_count' = [create_count EXCEPT ![m] = @ + 1]
           /\ created_by' = [created_by EXCEPT ![m] = @ \cup {procs[w].script.i}]
    /\ procs' = [procs EXCEPT ![w].pc = IF procs[w].script.waits THEN "poll" ELSE "exit",
                              ![w].k = 0]
    /\ UNCHANGED <<hostVars, script_files, deleted_by, shutdown_by, pvars, dvars, evars, cvars, nvars>>

\* "# Wait for all processes": one temp_file.exists() of the while loop;
\* a missing file ends the pass (time.sleep(2)) and the next pass starts at 0
WorkerPoll(w) ==
    /\ procs[w].pc = "poll"
    /\ procs' = IF procs[w].k \in markers
                THEN IF procs[w].k + 1 >= procs[w].script.num_processes
                     THEN [procs EXCEPT ![w].pc = "delete", ![w].k = 0]
                     ELSE [procs EXCEPT ![w].k = @ + 1]
                ELSE [procs EXCEPT ![w].k = 0]
    /\ UNCHANGED <<hostVars, script_files, workerVars, pvars, dvars, evars, cvars, nvars>>

\* the unlink loop after the wait: one "if temp_file.exists(): unlink()"
WorkerDelete(w) ==
    /\ procs[w].pc = "delete"
    /\ markers' = markers \ {procs[w].k}
    /\ deleted_by' = IF procs[w].k \in markers
                     THEN deleted_by \cup {procs[w].script.i}
                     ELSE deleted_by
    /\ procs' = IF procs[w].k + 1 >= procs[w].script.num_processes
                THEN [procs EXCEPT ![w].pc = IF procs[w].script.shutdown
                                             THEN "shutdown" ELSE "exit",
                                   ![w].k = 0]
                ELSE [procs EXCEPT ![w].k = @ + 1]
    /\ UNCHANGED <<hostVars, script_files, create_count, created_by, shutdown_by, pvars, dvars, evars, cvars, nvars>>

\* _add_sys_shutdown_execute: os.system(cmd)
WorkerShutdown(w) ==
    /\ procs[w].pc = "shutdown"
    /\ shutdown_by' = shutdown_by \cup {procs[w].script.i}
    /\ procs' = [procs EXCEPT ![w].pc = "exit"]
    /\ UNCHANGED <<hostVars, script_files, markers, create_count, created_by,
                   deleted_by, pvars, dvars, evars, cvars, nvars>>

\* a worker whose exit leaves its script file behind
WorkerExit_KeepsScript(w) ==
    /\ procs[w].pc = "exit"
    /\ procs' = [procs EXCEPT ![w].pc = "done"]
    /\ UNCHANGED <<hostVars, script_files, workerVars, pvars, dvars, evars, cvars, nvars>>

\* Blender exits: atexit _cleanup_temp_script unlinks the worker script
WorkerExit(w) ==
    /\ procs[w].pc = "exit"
    /\ script_files' = script_files \ {procs[w].file}
    /\ procs' = [procs EXCEPT ![w].pc = "done"]
    /\ UNCHANGED <<hostVars, workerVars, pvars, dvars, evars, cvars, nvars>>

WorkerStep(w) ==
    \/ WorkerRender(w)
    \/ WorkerCreateMarker(w)
    \/ WorkerPoll(w)
    \/ WorkerDelete(w)
    \/ WorkerShutdown(w)
    \/ WorkerExit(w)

Next ==
    \/ ExecuteSequenceParallel
    \/ ExecuteSequenceRejected
    \/ ExecuteFrameListParallel
    \/ ExecuteFrameListRejected
    \/ TimerProcessNextDevice
    \/ \E w \in 1..Len(procs) : WorkerRender(w)
    \/ \E w \in 1..Len(procs) : WorkerCreateMarker(w)
    \/ \E w \in 1..Len(procs) : WorkerPoll(w)
    \/ \E w \in 1..Len(procs) : WorkerDelete(w)
    \/ \E w \in 1..Len(procs) : WorkerShutdown(w)
    \/ \E w \in 1..Len(procs) : WorkerExit(w)

Spec == Init /\ [][Next]_vars

\* the OS schedules every launched process and the host runs due timers
LiveSpec ==
    /\ Init /\ [][Next]_vars
    /\ WF_vars(TimerProcessNextDevice)
    /\ \A w \in 1..MaxJobDev + 1 : WF_vars(w \in 1..Len(procs) /\ WorkerStep(w))

(***************************************************************************)
(* SpecD: Cycles device resolution and dispatch (_execute_cycles_render)    *)
(***************************************************************************)
CpuId == <<"CPU", 0>>

Ids(ds) == [n \in 1..Len(ds) |-> ds[n].id]

\* preferences.py get_devices_for_display
get_devices_for_display(p, devs) ==
    IF p.multiple_backends /\ p.device_parallel /\ p.launch_mode # "SINGLE_FRAME"
    THEN devs
    ELSE LET primary == SelectSeq(devs, LAMBDA d :
                            d.type = p.compute_device_type /\ d.type # "CPU")
             cpus == SelectSeq(devs, LAMBDA d : d.type = "CPU")
         IN  primary \o cpus

\* "for device in prefs.devices: if device.type == 'CPU': device.use = True"
EnableCpu(devs) ==
    [n \in 1..Len(devs) |->
        IF devs[n].type = "CPU" THEN [devs[n] EXCEPT !.use = TRUE] ELSE devs[n]]

\* a resolution that drops the CPU from the owners when combination is off
ResolveDevices_CpuDropped(p, devs) ==
    LET disp == get_devices_for_display(p, devs)
        parallel_mode == p.launch_mode \in {"SEQ", "LIST"} /\ p.device_parallel
        sel == IF parallel_mode
               THEN SelectSeq(disp, LAMBDA d :
                        d.use /\ (p.combine_cpu_with_gpus \/ d.type # "CPU"))
               ELSE SelectSeq(disp, LAMBDA d : d.use)
    IN  IF p.compute_device_type = "NONE"
        THEN [prefs    |-> p,
              devices  |-> EnableCpu(devs),
              selected |-> SelectSeq(get_devices_for_display(p, EnableCpu(devs)),
                                     LAMBDA d : d.use),
              warned   |-> FALSE]
        ELSE IF sel = <<>>
        THEN [prefs    |-> [p EXCEPT !.compute_device_type = "NONE"],
              devices  |-> EnableCpu(devs),
              selected |-> sel,
              warned   |-> TRUE]
        ELSE [prefs |-> p, devices |-> devs, selected |-> sel, warned |-> FALSE]

\* _execute_cycles_render, lines 316-341: the selected_devices local, with
\* the preferences and device entries as the fallbacks leave them
ResolveDevices(p, devs) ==
    LET disp == get_devices_for_display(p, devs)
        parallel_mode == p.launch_mode \in {"SEQ", "LIST"} /\ p.device_parallel
        sel == IF parallel_mode
               THEN SelectSeq(disp, LAMBDA d :
                        d.use /\ (~p.combine_cpu_with_gpus \/ d.type # "CPU"))
               ELSE SelectSeq(disp, LAMBDA d : d.use)
    IN  IF p.compute_device_type = "NONE"
        THEN \* _handle_cpu_fallback, then the locals are recomputed
             [prefs    |-> p,
              devices  |-> EnableCpu(devs),
              selected |-> SelectSeq(get_devices_for_display(p, EnableCpu(devs)),
                                     LAMBDA d : d.use),
              warned   |-> FALSE]
        ELSE IF sel = <<>>
        THEN \* _handle_no_devices_selected rebinds only its own locals
             [prefs    |-> [p EXCEPT !.compute_device_type = "NONE"],
              devices  |-> EnableCpu(devs),
              selected |-> sel,
              warned   |-> TRUE]
        ELSE [prefs |-> p, devices |-> devs, selected |-> sel, warned |-> FALSE]

\* _execute_cycles_render, lines 356-411: which path renders
DispatchPath(p, cycles_device, selected) ==
    IF cycles_device = "GPU" /\ p.launch_mode # "SINGLE_FRAME"
       /\ p.device_parallel /\ Len(selected) > 1
    THEN IF p.launch_mode = "SEQ" THEN "seq_parallel" ELSE "list_parallel"
    ELSE "single"

\* process_next_device, "# Combine CPU + GPU" (lines 681-695 / 953-967)
WorkerDeviceIds(p, devs, device) ==
    IF p.combine_cpu_with_gpus
    THEN LET cpus == SelectSeq(get_devices_for_display(p, devs),
                               LAMBDA d : d.use /\ d.type = "CPU")
         IN  IF cpus # <<>> THEN <<device.id, cpus[1].id>> ELSE <<device.id>>
    ELSE <<device.id>>

\* prefs.devices: MaxGpu CUDA entries, an optional OptiX entry and an
\* optional CPU entry that was added before or after the GPU entries
DevicePool ==
    LET gpus == [n \in 1..MaxGpu |-> <<"CUDA", n>>]
    IN  { [n \in 1..Len(ids) |-> [id |-> ids[n], type |-> ids[n][1], use |-> u[n]]] :
            ids \in { gpus, gpus \o << <<"OPTIX", 1>> >>,
                      gpus \o <<CpuId>>, <<CpuId>> \o gpus,
                      gpus \o << <<"OPTIX", 1>>, CpuId >> },
            u \in [1..MaxGpu + 2 -> BOOLEAN] }

InitD ==
    /\ PartIdle
    /\ ReqIdle /\ CmdIdle /\ NewIdle
    /\ prefs = DefaultPrefs /\ scene_range = <<0, 0, 1>> /\ frame_list = <<>>
    /\ n_selected = 2 /\ JobIdle
    /\ d_devices \in DevicePool
    /\ \E backend \in {"NONE", "CUDA"}, mb \in BOOLEAN, par \in BOOLEAN,
          comb \in BOOLEAN, mode \in {"SINGLE_FRAME", "SEQ", "LIST"} :
          d_prefs = [compute_device_type |-> backend, multiple_backends |-> mb,
                     device_parallel |-> par, combine_cpu_with_gpus |-> comb,
                     launch_mode |-> mode]
    /\ d_request = [prefs |-> d_prefs, devices |-> d_devices]
    /\ d_cycles_device \in {"GPU", "CPU"}
    /\ d_total_frames \in 1..MaxJobFrame
    /\ d_pc = "request" /\ d_path = "none" /\ d_selected = <<>>
    /\ d_num_devices = 0 /\ d_i = 0 /\ d_workers = <<>> /\ d_warned = FALSE

\* _execute_cycles_render ending in _execute_single_process_render
ExecuteCyclesSingle ==
    /\ d_pc = "request"
    /\ LET r == ResolveDevices(d_prefs, d_devices)
       IN  /\ DispatchPath(r.prefs, d_cycles_device, r.selected) = "single"
           /\ d_prefs' = r.prefs
           /\ d_devices' = r.devices
           /\ d_warned' = r.warned
           /\ d_selected' = r.selected
           /\ d_workers' = << Ids(r.selected) >>
    /\ d_path' = "single"
    /\ d_pc' = "done"
    /\ UNCHANGED <<d_request, d_cycles_device, d_total_frames, d_num_devices, d_i,
                   pvars, jvars, evars, cvars, nvars>>

\* _execute_cycles_render ending in a parallel path: first process_next_device()
ExecuteCyclesParallel ==
    /\ d_pc = "request"
    /\ LET r == ResolveDevices(d_prefs, d_devices)
           path == DispatchPath(r.prefs, d_cycles_device, r.selected)
       IN  /\ path # "single"
           /\ d_path' = path
           /\ d_prefs' = r.prefs
           /\ d_devices' = r.devices
           /\ d_warned' = r.warned
           /\ d_selected' = r.selected
           /\ d_num_devices' = NumDevices(Len(r.selected), d_total_frames)
           /\ d_workers' = << WorkerDeviceIds(r.prefs, r.devices, r.selected[1]) >>
    /\ d_i' = 1
    /\ d_pc' = "chain"
    /\ UNCHANGED <<d_request, d_cycles_device, d_total_frames, pvars, jvars, evars, cvars, nvars>>

\* the timer runs process_next_device for the next worker of the closure
CyclesTimerNextDevice ==
    /\ d_pc = "chain"
    /\ IF d_i < d_num_devices
       THEN /\ d_workers' = Append(d_workers,
                               WorkerDeviceIds(d_prefs, d_devices, d_selected[d_i + 1]))
            /\ d_i' = d_i + 1
            /\ d_pc' = "chain"
       ELSE /\ d_pc' = "done"
            /\ UNCHANGED <<d_workers, d_i>>
    /\ UNCHANGED <<d_request, d_prefs, d_devices, d_cycles_device, d_total_frames,
                   d_path, d_selected, d_num_devices, d_warned, pvars, jvars, evars, cvars, nvars>>

NextD == ExecuteCyclesSingle \/ ExecuteCyclesParallel \/ CyclesTimerNextDevice

SpecD == InitD /\ [][NextD]_vars

(***************************************************************************)
(* Frame-list strings: a string is a sequence of one-character strings     *)
(***************************************************************************)
Digits == {"0", "1", "2", "3", "4", "5", "6", "7", "8", "9"}

DigitValue(c) ==
    CASE c = "0" -> 0 [] c = "1" -> 1 [] c = "2" -> 2 [] c = "3" -> 3
      [] c = "4" -> 4 [] c = "5" -> 5 [] c = "6" -> 6 [] c = "7" -> 7
      [] c = "8" -> 8 [] c = "9" -> 9

\* the subsequence of s at the positions in K, from position k on
RECURSIVE KeepAt(_, _, _)
KeepAt(s, K, k) ==
    IF k > Len(s) THEN <<>>
    ELSE (IF k \in K THEN <<s[k]>> ELSE <<>>) \o KeepAt(s, K, k + 1)

\* cleaned = "".join(c for c in value if c.isdigit() or c in ",- ")
AllowedChars(s) == SelectSeq(s, LAMBDA c : c \in Digits \cup {",", "-", " "})

\* re.sub(r"\s*-\s*", "-", cleaned): spaces next to a hyphen go away
HyphenSpaces(s) ==
    LET beside(k) ==
            \/ \E j \in k + 1..Len(s) : s[j] = "-" /\ \A m \in k..j - 1 : s[m] = " "
            \/ \E j \in 1..k - 1 : s[j] = "-" /\ \A m \in j + 1..k : s[m] = " "
    IN  KeepAt(s, {k \in 1..Len(s) : ~(s[k] = " " /\ beside(k))}, 1)

\* re.sub(r"\s+", ",", cleaned): every run of spaces becomes one comma
SpacesToComma(s) ==
    LET t == KeepAt(s, {k \in 1..Len(s) : s[k] # " " \/ k = 1 \/ s[k - 1] # " "}, 1)
    IN  [k \in 1..Len(t) |-> IF t[k] = " " THEN "," ELSE t[k]]

\* re.sub(r",+", ",", cleaned)
CollapseCommas(s) ==
    KeepAt(s, {k \in 1..Len(s) : s[k] # "," \/ k = 1 \/ s[k - 1] # ","}, 1)

\* re.sub(r"\s*,\s*", ", ", cleaned)
RECURSIVE CommaSpace(_)
CommaSpace(s) ==
    IF s = <<>> THEN <<>>
    ELSE (IF Head(s) = "," THEN <<",", " ">> ELSE <<Head(s)>>) \o CommaSpace(Tail(s))

\* cleaned.strip(", ")
RECURSIVE StripCommaSpace(_)
StripCommaSpace(s) ==
    IF s = <<>> THEN <<>>
    ELSE IF Head(s) \in {",", " "} THEN StripCommaSpace(Tail(s))
    ELSE IF s[Len(s)] \in {",", " "} THEN StripCommaSpace(SubSeq(s, 1, Len(s) - 1))
    ELSE s

\* properties.py _sanitize_frame_list: the value the frame_list property
\* holds after the update callback ran on the typed value
_sanitize_frame_list(value) ==
    StripCommaSpace(CommaSpace(CollapseCommas(SpacesToComma(HyphenSpaces(AllowedChars(value))))))

\* first position >= p of s that holds no digit (Len(s) + 1 if none)
RECURSIVE DigitsEnd(_, _)
DigitsEnd(s, p) ==
    IF p > Len(s) \/ s[p] \notin Digits THEN p ELSE DigitsEnd(s, p + 1)

\* int() of the digits s[p..q]
RECURSIVE ToInt(_, _, _)
ToInt(s, p, q) ==
    IF q < p THEN 0 ELSE 10 * ToInt(s, p, q - 1) + DigitValue(s[q])

\* the frames of the tokens re.findall(r"\d+(?:-\d+)?", frame_str) from p on
RECURSIVE TokenFrames(_, _)
TokenFrames(s, p) ==
    IF p > Len(s) THEN {}
    ELSE IF s[p] \notin Digits THEN TokenFrames(s, p + 1)
    ELSE LET q == DigitsEnd(s, p)
             start == ToInt(s, p, q - 1)
         IN  IF q + 1 <= Len(s) /\ s[q] = "-" /\ s[q + 1] \in Digits
             THEN LET r == DigitsEnd(s, q + 1)
                      end == ToInt(s, q + 1, r - 1)
                  IN  (start..end) \cup TokenFrames(s, r)
             ELSE {start} \cup TokenFrames(s, q)

\* helpers.py parse_frame_string
parse_frame_string(frame_str) == sorted(TokenFrames(frame_str, 1))


(***************************************************************************)
(* SpecE: one render request through RECOM_OT_BackgroundRender.execute     *)
(***************************************************************************)

\* _validate_settings, "External-blend sanity checks" / saved file
BlendFileCheck(s) ==
    IF s.use_external_blend
    THEN /\ s.blend_is_file
         /\ s.scene_info \notin {"empty", "braces"}
         /\ s.scene_info \notin {"mismatch", "bad_json"}
    ELSE s.filepath_saved

\* _validate_settings, "Auto-save if requested"
AutoSaveCheck(s) == ~(~s.use_external_blend /\ s.auto_save = "fails")

\* _validate_settings, "Movie format checks"
MovieFormatCheck(s, launch_mode) ==
    s.file_format_override
    \/ LET is_movie_format == s.use_external_blend /\ s.scene_info = "ok_movie"
       IN  ~(launch_mode # "SEQ" /\ (s.is_movie_format \/ is_movie_format))

\* _validate_settings, "Frame list non-empty check"
FrameListCheck(s, launch_mode) == ~(launch_mode = "LIST" /\ s.frame_list = <<>>)

\* _validate_settings, "Check camera" without the external-file branch
CameraCheck_Skipped(s) == s.use_external_blend => s.scene_info # "ok_no_camera"

\* _validate_settings, "Check camera"
CameraCheck(s) ==
    IF s.use_external_blend THEN s.scene_info # "ok_no_camera" ELSE s.camera

\* _validate_settings: the checks in the order of the code; the first that
\* fails returns False
_validate_settings(s, launch_mode) ==
    /\ BlendFileCheck(s)
    /\ AutoSaveCheck(s)
    /\ MovieFormatCheck(s, launch_mode)
    /\ FrameListCheck(s, launch_mode)
    /\ CameraCheck(s)

\* the self.report calls of a failing _validate_settings (a failing
\* auto-save is only logged)
ValidationReports(s, launch_mode) ==
    IF BlendFileCheck(s) /\ ~AutoSaveCheck(s) THEN <<>> ELSE <<"ERROR">>

\* _get_frame_settings as seen by the caller that unpacks its result:
\* exc is the exception of the call or of the unpacking, set_single tells
\* that validate_frame_range assigned prefs.launch_mode = MODE_SINGLE
_get_frame_settings(s, rng, is_animation) ==
    IF ~is_animation
    THEN [exc |-> "none", set_single |-> FALSE,
          frames |-> <<s.frame_current, s.frame_current, 1>>]
    ELSE LET v == validate_frame_range(rng[1], rng[2], rng[3])
         IN  IF v = "ok"
             THEN [exc |-> "none", set_single |-> FALSE, frames |-> rng]
             ELSE IF v = "equal"
             THEN \* None or {"CANCELLED"} cannot be unpacked into three names
                  [exc |-> IF s.use_external_blend THEN "TypeError" ELSE "ValueError",
                   set_single |-> TRUE, frames |-> rng]
             ELSE [exc |-> "ValueError", set_single |-> FALSE, frames |-> rng]

\* worker script of _execute_single_process_render
SingleScript(p, fs, frames) ==
    [i              |-> 0,
     is_animation   |-> p.launch_mode = "SEQ",
     frame_start    |-> fs[1],
     frame_end      |-> fs[2],
     frame_step     |-> fs[3],
     frames         |-> IF p.launch_mode = "LIST" THEN frames ELSE <<>>,
     use_overwrite  |-> "unset",
     use_placeholder|-> "unset",
     renders        |-> IF p.launch_mode = "LIST" THEN Len(frames) ELSE 1,
     creates_marker |-> FALSE,
     marker         |-> 0,
     waits          |-> FALSE,
     num_processes  |-> 0,
     shutdown       |-> p.set_system_power /\ p.shutdown_after_render]


\* characters typed into the frame-list field
FrameListChars == {"1", "3", "-", ",", " "}

\* the values the frame_list property can hold: sanitized typed strings
FrameListPool ==
    { _sanitize_frame_list(value) :
        value \in UNION { [1..n -> FrameListChars] : n \in 0..MaxStrLen } }

\* request settings that differ in what _validate_settings reads
SettingsPool ==
    { s \in [use_external_blend : BOOLEAN, blend_is_file : BOOLEAN,
             scene_info : {"empty", "braces", "bad_json", "mismatch", "ok",
                           "ok_movie", "ok_no_camera"},
             filepath_saved : BOOLEAN, auto_save : {"off", "saved", "fails"},
             file_format_override : BOOLEAN, is_movie_format : BOOLEAN,
             camera : BOOLEAN, frame_list : {<<>>, <<"1">>},
             frame_current : {1},
             engine : {"CYCLES", "BLENDER_EEVEE", "OTHER"}] :
        \* what the checks never read keeps its default
        IF s.use_external_blend
        THEN s.filepath_saved /\ s.camera /\ s.auto_save = "off"
        ELSE ~s.blend_is_file /\ s.scene_info = "braces" }

\* prefs.devices of a CUDA machine: MaxJobDev GPUs, the first k selected,
\* and the CPU entry, not selected
JobDevices(k) ==
    [n \in 1..MaxJobDev + 1 |->
        IF n <= MaxJobDev
        THEN [id |-> <<"CUDA", n>>, type |-> "CUDA", use |-> n <= k]
        ELSE [id |-> CpuId, type |-> "CPU", use |-> FALSE]]

\* the devices and the path of the request as _execute_cycles_render
\* resolves them (other engines pass no devices to the single process)
RequestDevices(s, p, devs) ==
    IF s.engine = "CYCLES"
    THEN ResolveDevices(p, devs)
    ELSE [prefs |-> p, devices |-> devs, selected |-> <<>>, warned |-> FALSE]

RequestPath(s, p, devs, cycles_device) ==
    IF s.engine = "CYCLES"
    THEN LET r == ResolveDevices(p, devs)
         IN  DispatchPath(r.prefs, cycles_device, r.selected)
    ELSE "single"

\* InitE draws the request from three families: every combination of what
\* the precondition checks read; every device configuration; every frame
\* domain on 0..MaxJobDev selected GPUs
InitE ==
    /\ PartIdle
    /\ JobIdle
    /\ CmdIdle /\ NewIdle
    /\ e_render_id = 0 /\ e_history = <<>>
    /\ e_button = FALSE /\ e_reset_timer = FALSE /\ e_reports = <<>>
    /\ d_total_frames = 1 /\ d_pc = "request" /\ d_path = "none"
    /\ d_selected = <<>> /\ d_num_devices = 0 /\ d_i = 0
    /\ d_workers = <<>> /\ d_warned = FALSE
    /\ \E mode \in {"SINGLE_FRAME", "SEQ", "LIST"} :
          \/ \* preconditions
             /\ e_settings \in SettingsPool
             /\ prefs = [DefaultPrefs EXCEPT !.launch_mode = mode]
             /\ scene_range = <<1, MaxJobFrame, 1>>
             /\ d_devices = JobDevices(2)
             /\ d_prefs = [DefaultDevicePrefs EXCEPT !.compute_device_type = "CUDA",
                                                     !.launch_mode = mode]
             /\ d_cycles_device = "GPU"
          \/ \* devices
             /\ e_settings = [DefaultSettings EXCEPT !.frame_list = <<"1", ",", " ", "3">>]
             /\ prefs = [DefaultPrefs EXCEPT !.launch_mode = mode]
             /\ scene_range = <<1, MaxJobFrame, 1>>
             /\ d_devices \in DevicePool
             /\ \E backend \in {"NONE", "CUDA"}, mb \in BOOLEAN, par \in BOOLEAN,
                   comb \in BOOLEAN :
                   d_prefs = [compute_device_type |-> backend, multiple_backends |-> mb,
                              device_parallel |-> par, combine_cpu_with_gpus |-> comb,
                              launch_mode |-> mode]
             /\ d_cycles_device \in {"GPU", "CPU"}
          \/ \* frames
             /\ \E ext \in BOOLEAN, fl \in FrameListPool,
                   engine \in {"CYCLES", "BLENDER_EEVEE"} :
                   /\ e_settings = [DefaultSettings EXCEPT
                                       !.use_external_blend = ext,
                                       !.blend_is_file = ext,
                                       !.scene_info = IF ext THEN "ok" ELSE "braces",
                                       !.frame_list = fl,
                                       !.engine = engine]
                   /\ mode # "LIST" => fl = <<>>
             /\ \E alloc \in {"SEQUENTIAL", "FRAME_SPLIT"} :
                   /\ prefs = [DefaultPrefs EXCEPT !.launch_mode = mode,
                                                   !.frame_allocation = alloc]
                   /\ mode # "SEQ" => alloc = "FRAME_SPLIT"
             /\ \E s \in 1..2, e \in 1..MaxJobFrame, st \in 1..2 :
                   /\ scene_range = <<s, e, st>>
                   /\ mode = "SINGLE_FRAME" => scene_range = <<1, 1, 1>>
                   /\ mode = "LIST" => st = 1
             /\ \E k \in 0..MaxJobDev : d_devices = JobDevices(k)
             /\ \E par \in BOOLEAN :
                   d_prefs = [DefaultDevicePrefs EXCEPT !.compute_device_type = "CUDA",
                                                        !.device_parallel = par,
                                                        !.launch_mode = mode]
             /\ d_cycles_device = "GPU"
    /\ d_request = [prefs |-> d_prefs, devices |-> d_devices]
    /\ frame_list = <<>>
    /\ n_selected = Len(RequestDevices(e_settings, d_prefs, d_devices).selected)


\* engines execute() hands to a render path (RE_CYCLES, RE_EEVEE_NEXT,
\* RE_EEVEE, RE_WORKBENCH; one Eevee name stands for the last three)
SupportedEngines == {"CYCLES", "BLENDER_EEVEE"}

\* execute(), lines 77-84: button flag, job id and history entry
RequestAccepted ==
    /\ e_button' = TRUE
    /\ e_reset_timer' = TRUE
    /\ e_render_id' = e_render_id + 1
    /\ e_history' = <<e_render_id + 1>> \o e_history

\* prefs.launch_mode = MODE_SINGLE of validate_frame_range
SetSingle(q, set_single) ==
    IF set_single THEN [q EXCEPT !.launch_mode = "SINGLE_FRAME"] ELSE q

\* what the device resolution leaves in the preferences and the locals
DeviceOutcome(r, path, set_single) ==
    /\ d_prefs' = SetSingle(r.prefs, set_single)
    /\ d_devices' = r.devices
    /\ d_warned' = r.warned
    /\ d_selected' = r.selected
    /\ d_path' = path

WarnedReport(r) == IF r.warned THEN <<"WARNING">> ELSE <<>>

\* execute(), lines 103-104, after the render path returned
LaunchedReport == <<"INFO: Background render launched">>

\* execute(), lines 69-70: a precondition fails
RequestRejected ==
    /\ op_result = "none"
    /\ ~_validate_settings(e_settings, prefs.launch_mode)
    /\ op_result' = "CANCELLED"
    /\ e_reports' = e_reports \o ValidationReports(e_settings, prefs.launch_mode)
    /\ UNCHANGED <<nvars, cvars, e_settings, e_render_id, e_history, e_button, e_reset_timer>>
    /\ UNCHANGED <<prefs, inputVars, path_result, job_kind, job_i, job_num_devices,
                   job_device_ranges, timer, chain_error, scripts, script_files,
                   procs, launched, workerVars, pvars, dvars>>

\* execute(), lines 99-101: the engine has no render path
RequestUnsupportedEngine ==
    /\ op_result = "none"
    /\ _validate_settings(e_settings, prefs.launch_mode)
    /\ e_settings.engine \notin SupportedEngines
    /\ RequestAccepted
    /\ op_result' = "CANCELLED"
    /\ e_reports' = e_reports \o <<"ERROR">>
    /\ UNCHANGED <<nvars, cvars, e_settings, prefs, inputVars, path_result, job_kind, job_i,
                   job_num_devices, job_device_ranges, timer, chain_error, scripts,
                   script_files, procs, launched, workerVars, pvars, dvars>>

\* execute() -> _execute_single_process_render, frame settings accepted:
\* the script is written and _launch_render_process succeeds or raises
RequestSingleProcess ==
    /\ op_result = "none"
    /\ _validate_settings(e_settings, prefs.launch_mode)
    /\ e_settings.engine \in SupportedEngines
    /\ RequestAccepted
    /\ LET r == RequestDevices(e_settings, d_prefs, d_devices)
           path == RequestPath(e_settings, d_prefs, d_devices, d_cycles_device)
           fs == _get_frame_settings(e_settings, scene_range,
                                     prefs.launch_mode # "SINGLE_FRAME")
           frames == parse_frame_string(e_settings.frame_list)
           script == SingleScript(prefs, fs.frames, frames)
       IN  /\ path = "single"
           /\ fs.exc = "none"
           /\ DeviceOutcome(r, path, FALSE)
           /\ frame_list' = IF prefs.launch_mode = "LIST" THEN frames ELSE frame_list
           /\ scripts' = Append(scripts, script)
           /\ d_workers' = Append(d_workers, Ids(r.selected))
           /\ \E ok \in BOOLEAN :
                 IF ok
                 THEN /\ procs' = Append(procs, [script |-> script,
                                                 file   |-> Len(scripts) + 1,
                                                 pc     |-> "render",
                                                 left   |-> script.renders,
                                                 k      |-> 0])
                      /\ launched' = Append(launched, [i |-> 0, via |-> "call"])
                      /\ script_files' = script_files \cup {Len(scripts) + 1}
                      /\ path_result' = "FINISHED"
                      /\ e_reports' = e_reports \o WarnedReport(r) \o LaunchedReport
                 ELSE \* temp_script_path.unlink(missing_ok=True); return {"CANCELLED"}
                      /\ UNCHANGED <<procs, launched, script_files>>
                      /\ path_result' = "CANCELLED"
                      /\ e_reports' = e_reports \o WarnedReport(r) \o <<"ERROR">>
                                          \o LaunchedReport
    /\ op_result' = "FINISHED"
    /\ d_pc' = "done"
    /\ UNCHANGED <<nvars, cvars, e_settings, prefs, scene_range, n_selected, job_kind, job_i,
                   job_num_devices, job_device_ranges, timer, chain_error,
                   workerVars, pvars, d_request, d_cycles_device, d_total_frames,
                   d_num_devices, d_i>>

\* execute() -> _execute_single_process_render: unpacking the result of
\* _get_frame_settings raises and nothing catches it on the way out
RequestSingleProcessRaised ==
    /\ op_result = "none"
    /\ _validate_settings(e_settings, prefs.launch_mode)
    /\ e_settings.engine \in SupportedEngines
    /\ RequestAccepted
    /\ LET r == RequestDevices(e_settings, d_prefs, d_devices)
           path == RequestPath(e_settings, d_prefs, d_devices, d_cycles_device)
           fs == _get_frame_settings(e_settings, scene_range,
                                     prefs.launch_mode # "SINGLE_FRAME")
       IN  /\ path = "single"
           /\ fs.exc # "none"
           /\ DeviceOutcome(r, path, fs.set_single)
           /\ prefs' = SetSingle(prefs, fs.set_single)
           /\ e_reports' = e_reports \o WarnedReport(r)
                              \o (IF fs.set_single THEN <<"ERROR">> ELSE <<>>)
    /\ op_result' = "EXCEPTION"
    /\ d_pc' = "done"
    /\ UNCHANGED <<nvars, cvars, e_settings, inputVars, path_result, job_kind, job_i,
                   job_num_devices, job_device_ranges, timer, chain_error, scripts,
                   script_files, procs, launched, workerVars, pvars, d_request,
                   d_cycles_device, d_total_frames, d_num_devices, d_i, d_workers>>


\* execute() -> _execute_sequence_parallel_render, frame range accepted:
\* partition, inline process_next_device(), FINISHED
RequestSequenceParallel ==
    /\ op_result = "none"
    /\ _validate_settings(e_settings, prefs.launch_mode)
    /\ e_settings.engine \in SupportedEngines
    /\ RequestAccepted
    /\ LET r == RequestDevices(e_settings, d_prefs, d_devices)
           path == RequestPath(e_settings, d_prefs, d_devices, d_cycles_device)
           fs == _get_frame_settings(e_settings, scene_range, TRUE)
           total_frames == RangeTotalFrames(scene_range[1], scene_range[2], scene_range[3])
           nd == NumDevices(Len(r.selected), total_frames)
           dr == IF prefs.frame_allocation = "FRAME_SPLIT"
                 THEN RangeDeviceRanges(scene_range[1], scene_range[2],
                                        scene_range[3], Len(r.selected))
                 ELSE <<>>
       IN  /\ path = "seq_parallel"
           /\ fs.exc = "none"
           /\ DeviceOutcome(r, path, FALSE)
           /\ job_kind' = "SEQ"
           /\ job_num_devices' = nd
           /\ job_device_ranges' = dr
           /\ d_num_devices' = nd
           /\ \E ok \in BOOLEAN :
                 /\ SeqProcessNextDevice(prefs, 0, nd, dr, scene_range, "call", ok)
                 /\ e_reports' = e_reports \o WarnedReport(r)
                                    \o (IF ok THEN <<>> ELSE <<"ERROR">>)
                                    \o LaunchedReport
           /\ d_workers' = Append(d_workers,
                                  WorkerDeviceIds(r.prefs, r.devices, r.selected[1]))
    /\ d_i' = job_i'
    /\ path_result' = "FINISHED"
    /\ op_result' = "FINISHED"
    /\ d_pc' = "chain"
    /\ UNCHANGED <<nvars, cvars, e_settings, prefs, inputVars, workerVars, pvars, d_request,
                   d_cycles_device, d_total_frames>>

\* _execute_sequence_parallel_render, lines 623-631: the frame range is
\* rejected; a ValueError becomes CANCELLED, which execute() drops, and the
\* TypeError of unpacking None (external scene data) leaves execute()
RequestSequenceRejected ==
    /\ op_result = "none"
    /\ _validate_settings(e_settings, prefs.launch_mode)
    /\ e_settings.engine \in SupportedEngines
    /\ RequestAccepted
    /\ LET r == RequestDevices(e_settings, d_prefs, d_devices)
           path == RequestPath(e_settings, d_prefs, d_devices, d_cycles_device)
           fs == _get_frame_settings(e_settings, scene_range, TRUE)
       IN  /\ path = "seq_parallel"
           /\ fs.exc # "none"
           /\ DeviceOutcome(r, path, fs.set_single)
           /\ prefs' = SetSingle(prefs, fs.set_single)
           /\ IF fs.exc = "ValueError"
              THEN /\ path_result' = "CANCELLED"
                   /\ op_result' = "FINISHED"
                   /\ e_reports' = e_reports \o WarnedReport(r)
                                      \o (IF fs.set_single THEN <<"ERROR">> ELSE <<>>)
                                      \o LaunchedReport
              ELSE /\ path_result' = path_result
                   /\ op_result' = "EXCEPTION"
                   /\ e_reports' = e_reports \o WarnedReport(r)
                                      \o (IF fs.set_single THEN <<"ERROR">> ELSE <<>>)
    /\ d_pc' = "done"
    /\ UNCHANGED <<nvars, cvars, e_settings, inputVars, job_kind, job_i, job_num_devices,
                   job_device_ranges, timer, chain_error, scripts, script_files,
                   procs, launched, workerVars, pvars, d_request, d_cycles_device,
                   d_total_frames, d_num_devices, d_i, d_workers>>

\* execute() -> _execute_frame_list_parallel_render with frames
RequestFrameListParallel ==
    /\ op_result = "none"
    /\ _validate_settings(e_settings, prefs.launch_mode)
    /\ e_settings.engine \in SupportedEngines
    /\ RequestAccepted
    /\ LET r == RequestDevices(e_settings, d_prefs, d_devices)
           path == RequestPath(e_settings, d_prefs, d_devices, d_cycles_device)
           frames == parse_frame_string(e_settings.frame_list)
           nd == NumDevices(Len(r.selected), Len(frames))
           dr == ListDeviceRanges(frames, Len(r.selected))
       IN  /\ path = "list_parallel"
           /\ frames # <<>>
           /\ DeviceOutcome(r, path, FALSE)
           /\ frame_list' = frames
           /\ job_kind' = "LIST"
           /\ job_num_devices' = nd
           /\ job_device_ranges' = dr
           /\ d_num_devices' = nd
           /\ \E ok \in BOOLEAN :
                 /\ ListProcessNextDevice(prefs, 0, nd, dr, "call", ok)
                 /\ e_reports' = e_reports \o WarnedReport(r)
                                    \o (IF ok THEN <<>> ELSE <<"ERROR">>)
                                    \o LaunchedReport
           /\ d_workers' = Append(d_workers,
                                  WorkerDeviceIds(r.prefs, r.devices, r.selected[1]))
    /\ d_i' = job_i'
    /\ path_result' = "FINISHED"
    /\ op_result' = "FINISHED"
    /\ d_pc' = "chain"
    /\ UNCHANGED <<nvars, cvars, e_settings, prefs, scene_range, n_selected, workerVars, pvars,
                   d_request, d_cycles_device, d_total_frames>>

\* _execute_frame_list_parallel_render, lines 893-896: the string holds no frame
RequestFrameListRejected ==
    /\ op_result = "none"
    /\ _validate_settings(e_settings, prefs.launch_mode)
    /\ e_settings.engine \in SupportedEngines
    /\ RequestAccepted
    /\ LET r == RequestDevices(e_settings, d_prefs, d_devices)
           path == RequestPath(e_settings, d_prefs, d_devices, d_cycles_device)
       IN  /\ path = "list_parallel"
           /\ parse_frame_string(e_settings.frame_list) = <<>>
           /\ DeviceOutcome(r, path, FALSE)
           /\ e_reports' = e_reports \o WarnedReport(r) \o <<"WARNING">>
                              \o LaunchedReport
    /\ path_result' = "CANCELLED"
    /\ op_result' = "FINISHED"
    /\ d_pc' = "done"
    /\ UNCHANGED <<nvars, cvars, e_settings, prefs, inputVars, job_kind, job_i, job_num_devices,
                   job_device_ranges, timer, chain_error, scripts, script_files,
                   procs, launched, workerVars, pvars, d_request, d_cycles_device,
                   d_total_frames, d_num_devices, d_i, d_workers>>

\* bpy.app.timers runs the registered process_next_device of the request
RequestTimerNextDevice ==
    /\ timer
    /\ \E ok \in BOOLEAN :
          /\ IF job_kind = "SEQ"
             THEN SeqProcessNextDevice(prefs, job_i, job_num_devices,
                                       job_device_ranges, scene_range, "timer", ok)
             ELSE ListProcessNextDevice(prefs, job_i, job_num_devices,
                                        job_device_ranges, "timer", ok)
          /\ e_reports' = IF Len(scripts') > Len(scripts) /\ ~ok
                          THEN e_reports \o <<"ERROR">> ELSE e_reports
    /\ d_workers' = IF Len(scripts') > Len(scripts)
                    THEN Append(d_workers,
                                WorkerDeviceIds(d_prefs, d_devices, d_selected[job_i + 1]))
                    ELSE d_workers
    /\ d_i' = job_i'
    /\ d_pc' = IF timer' THEN "chain" ELSE "done"
    /\ UNCHANGED <<nvars, cvars, e_settings, e_render_id, e_history, e_button, e_reset_timer,
                   prefs, inputVars, op_result, path_result, job_kind,
                   job_num_devices, job_device_ranges, workerVars, pvars,
                   d_request, d_prefs, d_devices, d_cycles_device, d_total_frames,
                   d_path, d_selected, d_num_devices, d_warned>>

\* helpers.py reset_button_state, run by its timer 0.75 s after the request
ResetButtonState ==
    /\ e_reset_timer
    /\ e_button' = FALSE
    /\ e_reset_timer' = FALSE
    /\ UNCHANGED <<nvars, cvars, e_settings, e_render_id, e_history, e_reports, jvars, dvars, pvars>>

NextE ==
    \/ RequestRejected
    \/ RequestUnsupportedEngine
    \/ RequestSingleProcess
    \/ RequestSingleProcessRaised
    \/ RequestSequenceParallel
    \/ RequestSequenceRejected
    \/ RequestFrameListParallel
    \/ RequestFrameListRejected
    \/ RequestTimerNextDevice
    \/ ResetButtonState

SpecE == InitE /\ [][NextE]_vars


(***************************************************************************)
(* SpecC: the command line built by _launch_render_process                 *)
(***************************************************************************)
\* values of RECOM_PG_ScriptEntry.script_path: unset, relative to the blend
\* file ("//"), absolute
HookPaths == {"", "//a.py", "/b.py"}

\* bpy.path.abspath: a leading "//" stands for the directory of the blend file
abspath(path) == IF path = "//a.py" THEN "/proj/a.py" ELSE path

\* Path(bpy.path.abspath(entry.script_path)).is_file()
is_file(path, files) == abspath(path) \in files

\* str(temp_script_path) of the worker being launched
TempScriptPath == "/tmp/scene_1_0.py"

\* str(blender_exec)
BlenderExec(p) == IF p.custom_executable THEN "/custom/blender" ELSE "/usr/bin/blender"

\* "# Base cmd"
BaseCmd(p) == <<BlenderExec(p), "-b", "/proj/scene.blend", "-noaudio", "--log", "render">>

\* "for entry in prefs.additional_scripts" from entry n on: what the loop
\* for the given order appends to cmd_list
RECURSIVE HookArgs(_, _, _, _)
HookArgs(entries, files, order, n) ==
    IF n > Len(entries)
    THEN <<>>
    ELSE LET entry == entries[n]
             rest == HookArgs(entries, files, order, n + 1)
         IN  IF entry.order = order /\ entry.script_path # ""
             THEN IF is_file(entry.script_path, files)
                  THEN <<"-P", abspath(entry.script_path)>> \o rest
                  ELSE rest       \* log.warning("Script not found")
             ELSE rest

\* the hook loops without the append_python_scripts test
ScriptArgs_Always(p, files, order) == HookArgs(p.additional_scripts, files, order, 1)

\* "# PRE scripts" / "# POST scripts"
ScriptArgs(p, files, order) ==
    IF p.append_python_scripts /\ p.additional_scripts # <<>>
    THEN HookArgs(p.additional_scripts, files, order, 1)
    ELSE <<>>

\* custom_command_line_args is kept as the list of its blank-separated
\* words: strip() is empty iff there is no word, split() yields the words
CustomArgs(p) ==
    IF p.add_command_line_args /\ p.custom_command_line_args # <<>>
    THEN p.custom_command_line_args
    ELSE <<>>

\* cmd_list as handed to the process launch
CmdList(p, files) ==
    BaseCmd(p) \o ScriptArgs(p, files, "PRE") \o <<"-P", TempScriptPath>>
               \o ScriptArgs(p, files, "POST") \o CustomArgs(p)

ScriptEntries == [order : {"PRE", "POST"}, script_path : HookPaths]

HookLists == UNION { [1..n -> ScriptEntries] : n \in 0..MaxHooks }

InitC ==
    /\ PartIdle
    /\ NewIdle
    /\ ReqIdle
    /\ DevIdle
    /\ prefs = DefaultPrefs /\ scene_range = <<0, 0, 1>> /\ frame_list = <<>>
    /\ n_selected = 2 /\ JobIdle
    /\ \E app \in BOOLEAN, hooks \in HookLists, exe \in BOOLEAN,
          args \in {<<>>, <<"-t", "2">>} :
          c_prefs = [custom_executable |-> ~exe, executable_is_file |-> exe,
                     append_python_scripts |-> app, additional_scripts |-> hooks,
                     add_command_line_args |-> args # <<>>,
                     custom_command_line_args |-> args]
    /\ c_files \in SUBSET {"/proj/a.py", "/b.py"}
    /\ c_pc = "ready" /\ cmd_list = <<>>

\* _launch_render_process up to the process launch
LaunchRenderProcess ==
    /\ c_pc = "ready"
    /\ c_prefs.executable_is_file
    /\ cmd_list' = CmdList(c_prefs, c_files)
    /\ c_pc' = "launched"
    /\ UNCHANGED <<c_prefs, c_files, pvars, jvars, dvars, evars, nvars>>

\* raise FileNotFoundError("Blender executable not found")
LaunchExecutableMissing ==
    /\ c_pc = "ready"
    /\ ~c_prefs.executable_is_file
    /\ c_pc' = "raised"
    /\ UNCHANGED <<c_prefs, c_files, cmd_list, pvars, jvars, dvars, evars, nvars>>

NextC == LaunchRenderProcess \/ LaunchExecutableMissing

SpecC == InitC /\ [][NextC]_vars


(***************************************************************************)
(* SpecS: the launch chain of one parallel request while the user changes  *)
(* preferences or submits another request between two delayed launches     *)
(***************************************************************************)
\* largest number of further requests submitted while the chain is pending
MaxOtherRequests == 1

\* get_addon_temp_dir(prefs): the custom folder if one is set and valid
get_addon_temp_dir(p) == IF p.use_custom_temp THEN "custom_temp" ELSE "addon_temp"

\* what process_next_device embeds into the script of worker ci: every value
\* is read from prefs and settings at the time of the call; num_devices is
\* the closure's local
ChainScript(p, render_id, ci, nd) ==
    [i                |-> ci,
     \* process_id = f"{settings.render_id}_{i}" in the script name
     process_id       |-> <<render_id, ci>>,
     script_dir       |-> get_addon_temp_dir(p),
     creates_marker   |-> SyncRequired(p),
     \* temp_file = temp_dir / f'{render_id}_process_{process_num}'
     marker           |-> IF SyncRequired(p)
                          THEN <<get_addon_temp_dir(p), render_id, MarkerOf(ci)>>
                          ELSE <<>>,
     waits            |-> SyncRequired(p) /\ WaitBlockFor(ci),
     num_processes    |-> IF SyncRequired(p) /\ WaitBlockFor(ci) THEN nd ELSE 0]

InitS ==
    /\ PartIdle
    /\ DevIdle
    /\ ReqIdle /\ CmdIdle
    /\ prefs = DefaultPrefs /\ scene_range = <<0, 0, 1>> /\ frame_list = <<>>
    /\ n_selected = 2 /\ JobIdle
    /\ \E power \in BOOLEAN, shut \in BOOLEAN, notif \in BOOLEAN, custom \in BOOLEAN :
          s_prefs = [set_system_power |-> power, prevent_sleep |-> TRUE,
                     shutdown_after_render |-> shut,
                     send_desktop_notifications |-> notif,
                     use_custom_temp |-> custom]
    /\ s_render_id = 0 /\ s_button = FALSE
    /\ s_num_devices = 0 /\ s_i = 0 /\ s_timer = FALSE /\ s_scripts = <<>>
    /\ OverridesIdle /\ ExternalIdle /\ HistoryIdle /\ ScriptsIdle

\* one call of process_next_device of the live closure
ChainProcessNextDevice(render_id, ci, nd) ==
    /\ s_scripts' = Append(s_scripts, ChainScript(s_prefs, render_id, ci, nd))
    /\ s_timer' = (ci < nd - 1)
    /\ s_i' = ci + 1

\* execute() of a parallel render over nd devices with at least nd frames:
\* button, job id, then the inline process_next_device()
ChainRequest ==
    /\ s_num_devices = 0
    /\ \E nd \in 2..MaxJobDev :
          /\ s_num_devices' = nd
          /\ ChainProcessNextDevice(s_render_id + 1, 0, nd)
    /\ s_button' = TRUE
    /\ s_render_id' = s_render_id + 1
    /\ UNCHANGED <<s_prefs, pvars, jvars, dvars, evars, cvars, restS>>

\* bpy.app.timers runs the registered process_next_device
ChainTimerNextDevice ==
    /\ s_timer
    /\ ChainProcessNextDevice(s_render_id, s_i, s_num_devices)
    /\ UNCHANGED <<s_prefs, s_render_id, s_button, s_num_devices,
                   pvars, jvars, dvars, evars, cvars, restS>>

\* reset_button_state, registered with first_interval=0.75
ChainResetButtonState ==
    /\ s_button
    /\ s_button' = FALSE
    /\ UNCHANGED <<s_prefs, s_render_id, s_num_devices, s_i, s_timer, s_scripts,
                   pvars, jvars, dvars, evars, cvars, restS>>

\* the user edits one preference while the next launch is pending
UserChangesPrefs ==
    /\ s_timer
    /\ \E f \in {"set_system_power", "shutdown_after_render",
                 "send_desktop_notifications", "use_custom_temp"} :
          s_prefs' = [s_prefs EXCEPT ![f] = ~@]
    /\ UNCHANGED <<s_render_id, s_button, s_num_devices, s_i, s_timer, s_scripts,
                   pvars, jvars, dvars, evars, cvars, restS>>

\* the user submits another render request while the next launch is
\* pending: execute() assigns a new settings.render_id (the workers of that
\* request are not followed)
UserSubmitsRequest ==
    /\ s_timer /\ ~s_button
    /\ s_render_id < 1 + MaxOtherRequests
    /\ s_render_id' = s_render_id + 1
    /\ s_button' = TRUE
    /\ UNCHANGED <<s_prefs, s_num_devices, s_i, s_timer, s_scripts,
                   pvars, jvars, dvars, evars, cvars, restS>>

NextS ==
    \/ ChainRequest
    \/ ChainTimerNextDevice
    \/ ChainResetButtonState
    \/ UserChangesPrefs
    \/ UserSubmitsRequest

SpecS == InitS /\ [][NextS]_vars


(***************************************************************************)
(* SpecO: the scene assignments of a generated worker script               *)
(***************************************************************************)
\* the scene attributes of each override group, as the script names them
MotionBlurAttrs == {"render.use_motion_blur", "render.motion_blur_position",
                    "render.motion_blur_shutter"}
FrameRangeAttrs == {"frame_start", "frame_end", "frame_step"}
ResolutionAttrs == {"render.resolution_x", "render.resolution_y",
                    "render.resolution_percentage", "camera.shift", "camera.lens"}
OutputFormatAttrs == {"render.image_settings.media_type",
                      "render.image_settings.file_format"}
CompositorAttrs == {"use_nodes", "render.compositor_device"}
CyclesDeviceAttrs == {"cycles.device"}
SamplingAttrs == {"cycles.use_adaptive_sampling", "cycles.adaptive_threshold",
                  "cycles.samples", "cycles.adaptive_min_samples", "cycles.time_limit"}
LightPathAttrs == {"cycles.max_bounces", "cycles.diffuse_bounces",
                   "cycles.glossy_bounces", "cycles.blur_glossy"}
PerformanceAttrs == {"cycles.use_auto_tile", "cycles.tile_size",
                     "render.use_persistent_data"}
EeveeAttrs == {"eevee.taa_render_samples", "eevee.use_shadows",
               "eevee.use_raytracing", "eevee.use_fast_gi"}

_apply_motion_blur_settings(s) ==
    IF s.motion_blur_override THEN MotionBlurAttrs ELSE {}

\* a variant that writes frame settings only under frame_range_override
_apply_frame_settings_Gated(s, is_animation) ==
    IF ~s.frame_range_override THEN {}
    ELSE IF is_animation THEN FrameRangeAttrs ELSE {"frame_set"}

\* the script always positions the scene: the range of an animation, or
\* frame_set of a still
_apply_frame_settings(s, is_animation) ==
    IF is_animation THEN FrameRangeAttrs ELSE {"frame_set"}

_apply_resolution_settings(s) ==
    IF s.format_override
    THEN (IF s.resolution_override
          THEN {"render.resolution_x", "render.resolution_y",
                "render.resolution_percentage"}
          ELSE {"render.resolution_percentage"})
         \cup (IF s.camera_shift THEN {"camera.shift"} ELSE {})
         \cup (IF s.use_overscan
               THEN {"camera.lens", "render.resolution_x", "render.resolution_y"}
                    \cup (IF s.camera_shift THEN {"camera.shift"} ELSE {})
               ELSE {})
    ELSE {}

_apply_output_format_settings(s) ==
    IF s.file_format_override THEN OutputFormatAttrs ELSE {}

_apply_compositing_settings(s) ==
    IF s.compositor_override THEN CompositorAttrs ELSE {}

_apply_cycles_sampling_settings(s) ==
    IF s.sampling_override THEN SamplingAttrs ELSE {}

_apply_cycles_light_paths_settings(s) ==
    IF s.light_path_override THEN LightPathAttrs ELSE {}

_apply_cycles_performance_settings(s) ==
    IF s.performance_override THEN PerformanceAttrs ELSE {}

\* the device selection is written to the Cycles addon preferences of the
\* worker, not to the scene; of the scene only cycles.device, if overridden
_apply_cycles_settings(s) ==
    {"preferences.compute_device_type", "preferences.devices.use"}
       \cup (IF s.device_override THEN CyclesDeviceAttrs ELSE {})
       \cup _apply_cycles_sampling_settings(s)
       \cup _apply_cycles_light_paths_settings(s)
       \cup _apply_cycles_performance_settings(s)

_apply_eevee_settings(s) ==
    IF s.eevee_override THEN EeveeAttrs ELSE {}

_generate_base_script(s, engine, is_animation) ==
    _apply_motion_blur_settings(s)
       \cup _apply_frame_settings(s, is_animation)
       \cup _apply_resolution_settings(s)
       \cup _apply_output_format_settings(s)
       \cup _apply_compositing_settings(s)
       \cup (IF engine = "CYCLES" THEN _apply_cycles_settings(s)
             ELSE IF engine = "BLENDER_EEVEE" THEN _apply_eevee_settings(s)
             ELSE {})

\* what the render path adds to the base script
PathAssignments(path) ==
    IF path.kind = "seq_parallel"
    THEN {"render.use_overwrite", "render.use_placeholder", "render.filepath"}
            \cup (IF path.cpu_threads THEN {"cycles.threads"} ELSE {})
    ELSE IF path.kind = "list_parallel"
    THEN {"frame_set", "render.filepath"}
            \cup (IF path.cpu_threads THEN {"cycles.threads"} ELSE {})
    ELSE IF path.launch_mode = "LIST"
    THEN {"frame_set", "render.filepath"}
    ELSE {"render.filepath"}

\* is_animation as each path hands it to _generate_base_script
PathIsAnimation(path) ==
    IF path.kind = "seq_parallel" THEN TRUE
    ELSE IF path.kind = "list_parallel" THEN FALSE
    ELSE path.launch_mode = "SEQ"

OverridePaths ==
    { [kind |-> "single", launch_mode |-> m, cpu_threads |-> FALSE] :
         m \in {"SINGLE_FRAME", "SEQ", "LIST"} }
    \cup { [kind |-> "seq_parallel", launch_mode |-> "SEQ", cpu_threads |-> t] :
              t \in BOOLEAN }
    \cup { [kind |-> "list_parallel", launch_mode |-> "LIST", cpu_threads |-> t] :
              t \in BOOLEAN }

InitO ==
    /\ PartIdle
    /\ DevIdle
    /\ ReqIdle /\ CmdIdle
    /\ prefs = DefaultPrefs /\ scene_range = <<0, 0, 1>> /\ frame_list = <<>>
    /\ n_selected = 2 /\ JobIdle
    /\ ChainIdle /\ ExternalIdle /\ HistoryIdle /\ ScriptsIdle
    /\ o_settings \in [DOMAIN DefaultOverrides -> BOOLEAN]
    \* the sub-options of the format group are read only inside the group
    /\ ~o_settings.format_override =>
          /\ o_settings.resolution_override = DefaultOverrides.resolution_override
          /\ ~o_settings.camera_shift /\ ~o_settings.use_overscan
    /\ o_path \in OverridePaths
    /\ o_engine \in (IF o_path.kind = "single"
                     THEN {"CYCLES", "BLENDER_EEVEE", "BLENDER_WORKBENCH"}
                     ELSE {"CYCLES"})
    /\ o_pc = "ready" /\ o_script = {}

\* _execute_single_process_render generates its script
GenerateSingleScript ==
    /\ o_pc = "ready" /\ o_path.kind = "single"
    /\ o_script' = _generate_base_script(o_settings, o_engine, PathIsAnimation(o_path))
                      \cup PathAssignments(o_path)
    /\ o_pc' = "done"
    /\ UNCHANGED <<o_settings, o_engine, o_path, pvars, jvars, dvars, evars, cvars, restO>>

\* process_next_device of a parallel path generates the script of a worker
GenerateParallelScript ==
    /\ o_pc = "ready" /\ o_path.kind # "single"
    /\ o_script' = _generate_base_script(o_settings, o_engine, PathIsAnimation(o_path))
                      \cup PathAssignments(o_path)
    /\ o_pc' = "done"
    /\ UNCHANGED <<o_settings, o_engine, o_path, pvars, jvars, dvars, evars, cvars, restO>>

NextO == GenerateSingleScript \/ GenerateParallelScript

SpecO == InitO /\ [][NextO]_vars


(***************************************************************************)
(* SpecX: the scene info of an external blend file and the render request  *)
(***************************************************************************)
\* the paths the user can put in the field: two blend files on disk, the
\* first also in Blender's relative form, a file that is not there, nothing
BlendFiles == {"/A.blend", "/B.blend"}
ExternalPaths == BlendFiles \cup {"//A.blend", "/gone.blend", ""}

\* bpy.path.abspath: expands the leading // only
bpy_path_abspath(p) == IF p = "//A.blend" THEN "/A.blend" ELSE p

\* is_blender_blend_file: the file exists and has a blend suffix
is_blender_blend_file(p) == bpy_path_abspath(p) \in BlendFiles

\* get_scene_info run inside file f: the record names the file it was run in
get_scene_info(f, lens) ==
    [kind |-> "ok", blend_filepath |-> f, camera_lens |-> lens]

\* what _get_scene_info_from_subprocess can return for file f: the scene
\* record of f (with or without a camera), or an error record (file gone,
\* return code, no JSON, timeout)
SubprocessResults(f) ==
    { get_scene_info(f, lens) : lens \in {0, 50} } \cup { [kind |-> "error"] }

\* scene_info.get("blend_filepath", "")
InfoFilepath(info) == IF info.kind = "ok" THEN info.blend_filepath ELSE ""

\* a variant that skips the comparison of the stored file name
ValidateExternal_NoMismatchCheck(path, info) ==
    /\ is_blender_blend_file(path)
    /\ info.kind # "empty"
    /\ ~(info.kind = "ok" /\ info.camera_lens = 0)

\* _validate_settings with use_external_blend set, single frame, no movie
ValidateExternal(path, info) ==
    /\ is_blender_blend_file(path)
    /\ info.kind # "empty"
    /\ InfoFilepath(info) = path
    /\ ~(info.kind = "ok" /\ info.camera_lens = 0)

InitX ==
    /\ PartIdle
    /\ DevIdle
    /\ ReqIdle /\ CmdIdle
    /\ prefs = DefaultPrefs /\ scene_range = <<0, 0, 1>> /\ frame_list = <<>>
    /\ n_selected = 2 /\ JobIdle
    /\ ChainIdle /\ OverridesIdle /\ HistoryIdle /\ ScriptsIdle
    /\ ExternalIdle

\* the user types or picks a path in the external blend file field
SetExternalPath(p) ==
    /\ x_path' = p
    /\ UNCHANGED <<x_info, x_loaded, x_threads, x_launched, x_result,
                   pvars, jvars, dvars, evars, cvars, restX>>

\* RECOM_OT_ExtractExternalSceneData.execute: Read Scene
ExtractExecute ==
    IF bpy_path_abspath(x_path) = "" \/ ~is_blender_blend_file(bpy_path_abspath(x_path))
    THEN /\ x_result' = "CANCELLED"
         /\ UNCHANGED <<x_path, x_info, x_loaded, x_threads, x_launched,
                        pvars, jvars, dvars, evars, cvars, restX>>
    ELSE /\ \E t \in 1..MaxExtractions :
              /\ x_threads[t].state = "idle"
              /\ x_threads' = [x_threads EXCEPT ![t] =
                                 [state |-> "started",
                                  blend_path |-> bpy_path_abspath(x_path)]]
         /\ x_result' = "FINISHED"
         /\ UNCHANGED <<x_path, x_info, x_loaded, x_launched,
                        pvars, jvars, dvars, evars, cvars, restX>>

\* _task, first statement: the thread clears is_scene_info_loaded
TaskStart(t) ==
    /\ x_threads[t].state = "started"
    /\ x_loaded' = FALSE
    /\ x_threads' = [x_threads EXCEPT ![t].state = "running"]
    /\ UNCHANGED <<x_path, x_info, x_launched, x_result,
                   pvars, jvars, dvars, evars, cvars, restX>>

\* _task: the subprocess ends and update_ui is registered as a timer
TaskFinish(t) ==
    /\ x_threads[t].state = "running"
    /\ \E r \in SubprocessResults(x_threads[t].blend_path) :
          x_threads' = [x_threads EXCEPT ![t] = [state |-> "timer", info_data |-> r]]
    /\ UNCHANGED <<x_path, x_info, x_loaded, x_launched, x_result,
                   pvars, jvars, dvars, evars, cvars, restX>>

\* update_ui -> _callback_fn on the main thread
UpdateUi(t) ==
    /\ x_threads[t].state = "timer"
    /\ x_info' = x_threads[t].info_data
    /\ x_loaded' = TRUE
    /\ x_threads' = [x_threads EXCEPT ![t] = [state |-> "idle"]]
    /\ UNCHANGED <<x_path, x_launched, x_result,
                   pvars, jvars, dvars, evars, cvars, restX>>

\* RECOM_OT_BackgroundRender.execute with use_external_blend set
ExternalRenderRequest ==
    /\ IF ValidateExternal(x_path, x_info)
       THEN /\ x_launched' = [kind |-> "render",
                              blend_file |-> bpy_path_abspath(x_path),
                              info |-> x_info]
            /\ x_result' = "FINISHED"
       ELSE /\ x_result' = "CANCELLED"
            /\ UNCHANGED x_launched
    /\ UNCHANGED <<x_path, x_info, x_loaded, x_threads,
                   pvars, jvars, dvars, evars, cvars, restX>>

NextX ==
    \/ \E p \in ExternalPaths : SetExternalPath(p)
    \/ ExtractExecute
    \/ \E t \in 1..MaxExtractions : TaskStart(t)
    \/ \E t \in 1..MaxExtractions : TaskFinish(t)
    \/ \E t \in 1..MaxExtractions : UpdateUi(t)
    \/ ExternalRenderRequest

SpecX == InitX /\ [][NextX]_vars


(***************************************************************************)
(* Blender collections, with the 0-based indices of the Python API         *)
(***************************************************************************)
\* collection.remove(index): an index outside the collection removes nothing
collection_remove(s, index) ==
    IF index \in 0..(Len(s) - 1)
    THEN SubSeq(s, 1, index) \o SubSeq(s, index + 2, Len(s))
    ELSE s

\* collection.move(src, dst): the item at src goes to dst, the items in
\* between shift by one; indices outside the collection move nothing
collection_move(s, src, dst) ==
    IF src \in 0..(Len(s) - 1) /\ dst \in 0..(Len(s) - 1)
    THEN LET rest == collection_remove(s, src)
         IN  SubSeq(rest, 1, dst) \o <<s[src + 1]>> \o SubSeq(rest, dst + 1, Len(rest))
    ELSE s

(***************************************************************************)
(* SpecH: the render history                                               *)
(***************************************************************************)
\* the size the history is cut to
RENDER_HISTORY_LIMIT == 20

\* bounds: render requests made, entries removed by hand
MaxNewRequests == 2
MaxRemovals == 1

\* a variant that leaves the new entry at the end of the list
_add_to_history_Appended(h, date) ==
    LET added == Append(h, [date |-> date])
    IN  IF Len(added) > RENDER_HISTORY_LIMIT
        THEN collection_remove(added, RENDER_HISTORY_LIMIT)
        ELSE added

\* _add_to_history: add() at the end, move to index 0, cut to the limit
_add_to_history(h, date) ==
    LET added == Append(h, [date |-> date])
        moved == collection_move(added, Len(added) - 1, 0)
    IN  IF Len(moved) > RENDER_HISTORY_LIMIT
        THEN collection_remove(moved, RENDER_HISTORY_LIMIT)
        ELSE moved

\* a history of n entries written by n earlier requests, newest first
StoredHistory(n) == [i \in 1..n |-> [date |-> n + 1 - i]]

InitH ==
    /\ PartIdle
    /\ DevIdle
    /\ ReqIdle /\ CmdIdle
    /\ prefs = DefaultPrefs /\ scene_range = <<0, 0, 1>> /\ frame_list = <<>>
    /\ n_selected = 2 /\ JobIdle
    /\ ChainIdle /\ OverridesIdle /\ ExternalIdle /\ ScriptsIdle
    /\ \E n \in 0..RENDER_HISTORY_LIMIT :
          /\ h_history = StoredHistory(n)
          /\ h_clock = n
    /\ h_active = -1 /\ h_requests = 0 /\ h_removals = 0

\* execute() of a validated request: the history entry is written before
\* the render path is chosen
HistoryRequest ==
    /\ h_requests < MaxNewRequests
    /\ h_clock' = h_clock + 1
    /\ h_history' = _add_to_history(h_history, h_clock')
    /\ h_requests' = h_requests + 1
    /\ UNCHANGED <<h_active, h_removals, pvars, jvars, dvars, evars, cvars, restH>>

\* the user clicks an entry of the history list
SelectHistoryItem(i) ==
    /\ i \in 0..(Len(h_history) - 1)
    /\ h_active' = i
    /\ UNCHANGED <<h_history, h_clock, h_requests, h_removals,
                   pvars, jvars, dvars, evars, cvars, restH>>

\* RECOM_OT_RemoveRenderHistoryItem.execute
RemoveRenderHistoryItem ==
    /\ h_removals < MaxRemovals
    /\ h_removals' = h_removals + 1
    /\ IF h_active >= 0 /\ h_active < Len(h_history)
       THEN /\ h_history' = collection_remove(h_history, h_active)
            /\ LET new_active_index ==
                      IF h_active < Len(h_history') - 1
                      THEN h_active ELSE Len(h_history') - 1
               IN  h_active' = IF new_active_index >= 0
                               THEN new_active_index ELSE h_active
       ELSE UNCHANGED <<h_history, h_active>>
    /\ UNCHANGED <<h_clock, h_requests, pvars, jvars, dvars, evars, cvars, restH>>

\* the loop of remove_type NOT_FOUND: from the last index down, an entry
\* whose blend file or output folder is missing is removed
RECURSIVE RemoveNotFound(_, _, _)
RemoveNotFound(h, i, missing) ==
    IF i < 0 THEN h
    ELSE RemoveNotFound(IF i \in missing THEN collection_remove(h, i) ELSE h,
                        i - 1, missing)

\* the sets of entries that can be found missing: none, one, all of them
MissingSets(h) ==
    {{}, 0..(Len(h) - 1)} \cup { {i} : i \in 0..(Len(h) - 1) }

\* RECOM_OT_CleanRenderHistory.execute
CleanRenderHistory(remove_type, missing) ==
    /\ h_history # <<>>
    /\ IF remove_type = "ALL"
       THEN /\ missing = {}
            /\ h_history' = <<>>
            /\ UNCHANGED h_removals
       ELSE /\ h_history' = RemoveNotFound(h_history, Len(h_history) - 1, missing)
            /\ h_removals' = h_removals + (IF Cardinality(missing) = 1 THEN 1 ELSE 0)
            /\ h_removals' <= MaxRemovals
    /\ UNCHANGED <<h_active, h_clock, h_requests,
                   pvars, jvars, dvars, evars, cvars, restH>>

NextH ==
    \/ HistoryRequest
    \/ \E i \in 0..(RENDER_HISTORY_LIMIT - 1) : SelectHistoryItem(i)
    \/ RemoveRenderHistoryItem
    \/ \E remove_type \in {"ALL", "NOT_FOUND"} :
          \E missing \in MissingSets(h_history) :
             CleanRenderHistory(remove_type, missing)

SpecH == InitH /\ [][NextH]_vars


(***************************************************************************)
(* SpecA: the operators of the append-scripts list                         *)
(***************************************************************************)
\* bound: entries the list is grown to
MaxScripts == 3

\* the script files an entry can name; "" is the path of a fresh entry
ScriptFiles == {"", "pre.py", "post.py"}

\* RECOM_PG_ScriptEntry as add() creates it
NewScriptEntry == [script_path |-> "", order |-> "PRE"]

InitA ==
    /\ PartIdle
    /\ DevIdle
    /\ ReqIdle /\ CmdIdle
    /\ prefs = DefaultPrefs /\ scene_range = <<0, 0, 1>> /\ frame_list = <<>>
    /\ n_selected = 2 /\ JobIdle
    /\ ChainIdle /\ OverridesIdle /\ ExternalIdle /\ HistoryIdle
    /\ ScriptsIdle

\* the user clicks an entry of the script list
SelectScript(i) ==
    /\ i \in 0..(Len(a_scripts) - 1)
    /\ a_active' = i
    /\ UNCHANGED <<a_scripts, a_result, pvars, jvars, dvars, evars, cvars, restA>>

\* RECOM_OT_RemoveAdditionalScript.execute: remove by index
RemoveAdditionalScript(index) ==
    /\ a_scripts' = collection_remove(a_scripts, index)
    /\ a_result' = "FINISHED"
    /\ UNCHANGED <<a_active, pvars, jvars, dvars, evars, cvars, restA>>

\* RECOM_OT_AddAdditionalScript.execute
AddAdditionalScript ==
    /\ Len(a_scripts) < MaxScripts
    /\ a_scripts' = Append(a_scripts, NewScriptEntry)
    /\ a_result' = "FINISHED"
    /\ UNCHANGED <<a_active, pvars, jvars, dvars, evars, cvars, restA>>

\* RECOM_OT_AddScriptFromMenu.execute: the first empty entry is filled, and
\* only without one a new entry is added
AddScriptFromMenu(script_path) ==
    /\ LET empty == {i \in 1..Len(a_scripts) : a_scripts[i].script_path = ""}
       IN  IF empty # {}
           THEN LET first == CHOOSE i \in empty : \A k \in empty : i <= k
                IN  a_scripts' = [a_scripts EXCEPT ![first].script_path = script_path]
           ELSE /\ Len(a_scripts) < MaxScripts
                /\ a_scripts' = Append(a_scripts,
                                       [NewScriptEntry EXCEPT !.script_path = script_path])
    /\ a_result' = "FINISHED"
    /\ UNCHANGED <<a_active, pvars, jvars, dvars, evars, cvars, restA>>

\* RECOM_OT_ScriptAddItem.execute
ScriptAddItem(order, filepath) ==
    /\ Len(a_scripts) < MaxScripts
    /\ a_scripts' = Append(a_scripts, [script_path |-> filepath, order |-> order])
    /\ a_active' = Len(a_scripts') - 1
    /\ a_result' = "FINISHED"
    /\ UNCHANGED <<pvars, jvars, dvars, evars, cvars, restA>>

\* RECOM_OT_ScriptRemoveItem: poll and execute
ScriptRemoveItem ==
    /\ Len(a_scripts) > 0
    /\ a_scripts' = collection_remove(a_scripts, a_active)
    /\ a_active' = IF Len(a_scripts') = 0 THEN 0
                   ELSE IF a_active >= Len(a_scripts') THEN Len(a_scripts') - 1
                   ELSE a_active
    /\ a_result' = "FINISHED"
    /\ UNCHANGED <<pvars, jvars, dvars, evars, cvars, restA>>

\* RECOM_OT_ScriptMoveItem: poll and execute
ScriptMoveItem(direction) ==
    /\ Len(a_scripts) > 1
    /\ IF \/ a_active \notin 0..(Len(a_scripts) - 1)
          \/ (direction = "UP" /\ a_active = 0)
          \/ (direction = "DOWN" /\ a_active >= Len(a_scripts) - 1)
       THEN /\ a_result' = "CANCELLED"
            /\ UNCHANGED <<a_scripts, a_active>>
       ELSE LET target_index == IF direction = "UP" THEN a_active - 1
                                ELSE a_active + 1
            IN  /\ a_scripts' = collection_move(a_scripts, a_active, target_index)
                /\ a_active' = target_index
                /\ a_result' = "FINISHED"
    /\ UNCHANGED <<pvars, jvars, dvars, evars, cvars, restA>>

NextA ==
    \/ \E i \in 0..(MaxScripts - 1) : SelectScript(i)
    \/ \E index \in 0..MaxScripts : RemoveAdditionalScript(index)
    \/ AddAdditionalScript
    \/ \E script_path \in ScriptFiles \ {""} : AddScriptFromMenu(script_path)
    \/ \E order \in {"PRE", "POST"} : \E filepath \in ScriptFiles :
          ScriptAddItem(order, filepath)
    \/ ScriptRemoveItem
    \/ \E direction \in {"UP", "DOWN"} : ScriptMoveItem(direction)

SpecA == InitA /\ [][NextA]_vars


(***************************************************************************)
(* Properties of the partitioners (checked under SpecP)                    *)
(***************************************************************************)
RECURSIVE Concat(_)
Concat(ss) == IF ss = <<>> THEN <<>> ELSE Head(ss) \o Concat(Tail(ss))

Elems(s) == { s[k] : k \in 1..Len(s) }

ListSplitDone == p_pc = "split" /\ p_kind = "list"
RangeSplitDone == p_pc = "split" /\ p_kind = "range"

\* frames rendered by the sub-range of worker w (1-based position in device_ranges)
ChunkFrames(w) == RangeFrames(p_device_ranges[w][1], p_device_ranges[w][2], p_range[3])

\* C1: in a parallel frame-list render the subsets handed to workers
\* 0..min(D,N)-1 are consecutive index slices of the sorted frame list; their
\* concatenation is the list itself, so every frame goes to exactly one worker
\* (no omission, no duplicate), whatever gaps the list has.
C1_ListSplitExactCover ==
    ListSplitDone =>
        LET W == Min(p_selected, Len(p_frames))
        IN  /\ Len(p_device_ranges) = W
            /\ Concat(p_device_ranges) = p_frames
            /\ \A f \in Elems(p_frames) :
                   Cardinality({ w \in 1..W : f \in Elems(p_device_ranges[w]) }) = 1
            /\ \A w \in 1..W :
                   /\ Elems(p_device_ranges[w]) \subseteq Elems(p_frames)
                   /\ Cardinality(Elems(p_device_ranges[w])) = Len(p_device_ranges[w])
            /\ \A v, w \in 1..W :
                   v # w => Elems(p_device_ranges[v]) \cap Elems(p_device_ranges[w]) = {}

\* C1 witness: {1..7} on 3 devices gives {1,2,3}, {4,5}, {6,7}
C1_Witness ==
    /\ ListSplitDone
    /\ p_frames = <<1, 2, 3, 4, 5, 6, 7>>
    /\ p_selected = 3
    /\ p_device_ranges = << <<1, 2, 3>>, <<4, 5>>, <<6, 7>> >>

\* C2: in both split partitioners, with total frames and W = min(devices,
\* total) workers, worker i gets total div W + (1 if i < total mod W else 0)
\* frames: sizes differ by at most 1 and the first total mod W workers get
\* the larger size.
C2_FairRemainder ==
    /\ ListSplitDone =>
          LET total == Len(p_frames)
              W     == Min(p_selected, total)
          IN  /\ Len(p_device_ranges) = W
              /\ \A i \in 0..W-1 :
                     Len(p_device_ranges[i + 1])
                       = total \div W + (IF i < total % W THEN 1 ELSE 0)
    /\ RangeSplitDone =>
          LET total == Cardinality(RangeFrames(p_range[1], p_range[2], p_range[3]))
              W     == Min(p_selected, total)
          IN  /\ Len(p_device_ranges) = W
              /\ \A i \in 0..W-1 :
                     Cardinality(ChunkFrames(i + 1))
                       = total \div W + (IF i < total % W THEN 1 ELSE 0)
              /\ \A i, j \in 1..W :
                     Cardinality(ChunkFrames(i)) - Cardinality(ChunkFrames(j)) \in {-1, 0, 1}

\* C2 witness: range 1..10 step 1 on 4 devices gives [1-3], [4-6], [7-8], [9-10]
C2_Witness ==
    /\ RangeSplitDone
    /\ p_range = <<1, 10, 1>>
    /\ p_selected = 4
    /\ p_device_ranges = << <<1, 3>>, <<4, 6>>, <<7, 8>>, <<9, 10>> >>

\* C3 as stated: start_0 = start, start_{i+1} = end_i + step, every
\* end_i - start_i is a multiple of step, and end_{W-1} = end.
C3_AsStated ==
    RangeSplitDone =>
        LET W == Len(p_device_ranges)
        IN  /\ p_device_ranges[1][1] = p_range[1]
            /\ \A i \in 1..W-1 :
                   p_device_ranges[i + 1][1] = p_device_ranges[i][2] + p_range[3]
            /\ \A i \in 1..W :
                   (p_device_ranges[i][2] - p_device_ranges[i][1]) % p_range[3] = 0
            /\ p_device_ranges[W][2] = p_range[2]

\* C3 (amended): for a range with start < end and step >= 1 split under
\* FRAME_SPLIT, start_0 = start, start_{i+1} = end_i + step, every
\* end_i - start_i is a non-negative multiple of step, and end_{W-1} is the
\* last frame of the original range, start + ((end - start) div step) * step
\* (which is end exactly when step divides end - start); the sub-ranges
\* rendered with the original step are pairwise disjoint and together render
\* exactly the frames of the original range.
C3_RangeReconstruction ==
    RangeSplitDone =>
        LET W    == Len(p_device_ranges)
            last == p_range[1] + ((p_range[2] - p_range[1]) \div p_range[3]) * p_range[3]
        IN  /\ W >= 1
            /\ p_device_ranges[1][1] = p_range[1]
            /\ \A i \in 1..W-1 :
                   p_device_ranges[i + 1][1] = p_device_ranges[i][2] + p_range[3]
            /\ \A i \in 1..W :
                   /\ p_device_ranges[i][2] >= p_device_ranges[i][1]
                   /\ (p_device_ranges[i][2] - p_device_ranges[i][1]) % p_range[3] = 0
            /\ p_device_ranges[W][2] = last
            /\ last <= p_range[2] /\ p_range[2] - last < p_range[3]
            /\ UNION { ChunkFrames(w) : w \in 1..W }
                   = RangeFrames(p_range[1], p_range[2], p_range[3])
            /\ \A v, w \in 1..W : v # w => ChunkFrames(v) \cap ChunkFrames(w) = {}

\* C3 witness: a split range whose step does not divide end - start
C3_Witness ==
    /\ RangeSplitDone
    /\ p_range = <<1, 4, 2>>
    /\ p_selected = 2
    /\ p_device_ranges = << <<1, 1>>, <<3, 3>> >>

(***************************************************************************)
(* Properties of one parallel job (checked under Spec / LiveSpec)          *)
(***************************************************************************)
Workers == 1..Len(procs)

\* number of frames of the job's domain, counted on the frames themselves
DomainSize ==
    IF job_kind = "SEQ"
    THEN Cardinality(RangeFrames(scene_range[1], scene_range[2], scene_range[3]))
    ELSE Len(frame_list)

\* process i of the job was launched and every render call of it has returned
Returned(i) == \E w \in Workers : procs[w].script.i = i /\ procs[w].pc # "render"

\* a process stands at the os.system(shutdown) line
AtShutdown(w) == procs[w].pc = "shutdown"

\* process 0 ran the wait-for-all block to its end
PassedBarrier ==
    \E w \in Workers : /\ procs[w].script.i = 0 /\ procs[w].script.waits
                       /\ procs[w].pc \in {"shutdown", "exit", "done"}

\* C4: a parallel render (sequence or frame list) never launches more workers
\* than min(selected devices, frames of the domain); with fewer frames than
\* devices the surplus devices get no worker script and no process.
C4_WorkerCap ==
    /\ job_kind = "none" => procs = <<>> /\ scripts = <<>>
    /\ job_kind # "none" =>
          LET cap == Min(n_selected, DomainSize)
          IN  /\ Len(procs) <= cap
              /\ Len(scripts) <= cap
              /\ Cardinality(script_files) <= cap
              /\ \A n \in 1..Len(scripts) : scripts[n].i < cap
              /\ \A w \in Workers : procs[w].script.i < cap

\* C4 witness: fewer frames than devices, all workers launched, chain over
C4_Witness ==
    /\ job_kind # "none"
    /\ DomainSize < n_selected
    /\ Len(procs) = DomainSize
    /\ ~timer /\ job_i = DomainSize

\* C5 as stated: the shutdown command is issued only in a state where every
\* worker 0..N-1 has returned from its renders and its marker file exists.
C5_AsStated ==
    \A w \in Workers :
        AtShutdown(w) =>
            /\ procs[w].script.i = 0
            /\ \A i \in 0..job_num_devices - 1 : Returned(i) /\ i \in markers

\* C5 (amended): with shutdown-after-render enabled the shutdown/sleep command
\* is issued by worker 0 only, and only in a state where every worker 0..N-1
\* of the job has returned from all of its render invocations and has created
\* its marker file; the markers were all seen by worker 0 and are already
\* deleted again when the command is issued.  No interleaving lets worker 0
\* reach the shutdown block while some worker is still rendering.
C5_ShutdownAfterAllRendered ==
    /\ shutdown_by \subseteq {0}
    /\ \A w \in Workers :
          (AtShutdown(w) \/ (shutdown_by # {} /\ procs[w].script.i = 0)) =>
              /\ procs[w].script.i = 0
              /\ prefs.set_system_power /\ prefs.shutdown_after_render
              /\ \A i \in 0..job_num_devices - 1 :
                     /\ Returned(i)
                     /\ create_count[i] >= 1
                     /\ i \notin markers
    /\ shutdown_by # {} => \A w \in Workers : procs[w].pc # "render"

\* C5 witness: worker 0 of a job of several workers has issued the shutdown
C5_Witness ==
    /\ shutdown_by = {0}
    /\ job_num_devices >= 2
    /\ Len(procs) = job_num_devices

\* C6: worker i creates only the marker {job_id}_process_i, at most once;
\* markers are deleted only by worker 0 and only after it saw all N markers
\* in one poll; once worker 0 has passed the barrier no marker of the job
\* exists and none is created afterwards.
C6_MarkerLifecycle ==
    /\ [](\A m \in 0..MaxJobDev : created_by[m] \subseteq {m} /\ create_count[m] <= 1)
    /\ [](deleted_by \subseteq {0})
    /\ [](\A w \in Workers :
             (procs[w].pc = "delete" /\ procs[w].k = 0) =>
                 /\ procs[w].script.i = 0
                 /\ procs[w].script.num_processes = job_num_devices
                 /\ \A m \in 0..job_num_devices - 1 : m \in markers)
    /\ [][(markers' # markers /\ markers' \subseteq markers) =>
             \E w \in Workers : /\ procs[w].script.i = 0
                                /\ procs[w].pc = "delete"
                                /\ procs'[w] # procs[w]]_vars
    /\ [](PassedBarrier => markers = {})
    /\ [][PassedBarrier => (PassedBarrier' /\ markers' = {})]_vars

\* C6 witness: worker 0 passed the barrier of a job whose other workers made markers
C6_Witness ==
    /\ PassedBarrier
    /\ job_num_devices >= 2
    /\ \A m \in 0..job_num_devices - 1 : create_count[m] = 1
    /\ markers = {}

\* every worker of the job is launched and every script has the marker block
AllLaunchedSync ==
    /\ job_kind # "none"
    /\ Len(procs) = job_num_devices
    /\ \A w \in Workers : procs[w].script.creates_marker
    /\ \E w \in Workers : procs[w].script.i = 0 /\ procs[w].script.waits

W0Finalized == \E w \in Workers : procs[w].script.i = 0 /\ procs[w].pc = "done"

\* C7: barrier liveness.  With synchronization enabled, all N workers
\* launched and every process scheduled fairly, worker 0 eventually sees all
\* markers, leaves the polling loop and completes its finalization; there is
\* no timeout: while a marker is missing worker 0 stays in the loop.
C7_BarrierLiveness ==
    /\ AllLaunchedSync ~> W0Finalized
    /\ [][\A w \in Workers :
             (/\ procs[w].pc = "poll"
              /\ \E m \in 0..procs[w].script.num_processes - 1 : m \notin markers)
             => procs'[w].pc = "poll"]_vars

\* C7 witness: worker 0 waited for several workers and finished
C7_Witness ==
    /\ AllLaunchedSync
    /\ W0Finalized
    /\ job_num_devices >= 2
    /\ \A w \in Workers : procs[w].pc = "done"

\* C8: workers are launched strictly in process_index order 0, 1, ..., each at
\* most once; worker i+1 is launched only by a timer callback registered after
\* worker i's launch was issued; the request returns right after launching
\* worker 0 without waiting for a later launch or for any worker.
C8_LaunchOrder ==
    /\ [](\A n \in 1..Len(launched) :
             /\ launched[n].i = n - 1
             /\ launched[n].via = IF n = 1 THEN "call" ELSE "timer")
    /\ [](Len(launched) <= job_num_devices)
    /\ [](timer => (job_i >= 1 /\ Len(launched) = job_i))
    /\ [](op_result = "none" => (launched = <<>> /\ procs = <<>> /\ ~timer))
    /\ [][(op_result = "none" /\ op_result' # "none") =>
             /\ Len(launched') <= 1
             /\ \A w \in 1..Len(procs') :
                    /\ procs'[w].script.i = 0
                    /\ procs'[w].pc = "render"
                    /\ procs'[w].left = procs'[w].script.renders]_vars
    /\ [][(Len(launched') > Len(launched) /\ Len(launched) >= 1) =>
             (timer /\ op_result = "FINISHED")]_vars

\* C8 witness: three workers launched in order after the request returned
C8_Witness ==
    /\ op_result = "FINISHED"
    /\ Len(launched) = 3
    /\ launched[3] = [i |-> 2, via |-> "timer"]

\* C9: in a parallel sequence render, under SEQUENTIAL every worker script has
\* the full input frame_start, frame_end, frame_step, overwrite disabled and
\* placeholders enabled; under FRAME_SPLIT every worker script has overwrite
\* enabled and placeholders disabled.
C9_AllocationPolicyScripts ==
    job_kind = "SEQ" =>
        \A n \in 1..Len(scripts) :
            /\ scripts[n].is_animation
            /\ prefs.frame_allocation = "SEQUENTIAL" =>
                  /\ scripts[n].frame_start = scene_range[1]
                  /\ scripts[n].frame_end = scene_range[2]
                  /\ scripts[n].frame_step = scene_range[3]
                  /\ scripts[n].use_overwrite = "False"
                  /\ scripts[n].use_placeholder = "True"
            /\ prefs.frame_allocation = "FRAME_SPLIT" =>
                  /\ scripts[n].use_overwrite = "True"
                  /\ scripts[n].use_placeholder = "False"

\* C9 witness: a SEQUENTIAL job generated the script of a second worker
C9_Witness ==
    /\ job_kind = "SEQ"
    /\ prefs.frame_allocation = "SEQUENTIAL"
    /\ Len(scripts) >= 2
    /\ scripts[2].i = 1
    /\ scripts[2].frame_start = scene_range[1]

(***************************************************************************)
(* Properties of the device resolution (checked under SpecD)               *)
(***************************************************************************)
\* the request asked for CPU + GPU combination in a parallel Cycles GPU
\* render: combine on, a CPU entry exists and is selected, and at least one
\* displayed non-CPU device is selected
CombineRequested ==
    LET p == d_request.prefs
        disp == get_devices_for_display(p, d_request.devices)
    IN  /\ p.combine_cpu_with_gpus
        /\ p.device_parallel
        /\ p.launch_mode \in {"SEQ", "LIST"}
        /\ d_cycles_device = "GPU"
        /\ \E n \in 1..Len(disp) : disp[n].type = "CPU" /\ disp[n].use
        /\ \E n \in 1..Len(disp) : disp[n].type # "CPU" /\ disp[n].use

\* C10: with combine-CPU-with-GPUs on and a CPU device present, every worker
\* of a parallel-enabled Cycles GPU render in sequence or frame-list mode has
\* the device list <<one non-CPU id, the CPU id>>: never two CPU ids, never a
\* CPU-only worker, never a worker without the CPU id, for >= 1 selected GPUs.
C10_CpuCombination ==
    (d_pc # "request" /\ CombineRequested) =>
        \A n \in 1..Len(d_workers) :
            /\ Len(d_workers[n]) = 2
            /\ d_workers[n][1] # CpuId
            /\ d_workers[n][2] = CpuId

(***************************************************************************)
(* Properties of one render request (checked under SpecE)                  *)
(***************************************************************************)
\* the request passed _validate_settings and reached a render path
RequestDone == op_result # "none"

RequestValid == _validate_settings(e_settings, d_request.prefs.launch_mode)

\* the devices the user selected: the displayed entries that are ticked
UserSelected ==
    SelectSeq(get_devices_for_display(d_request.prefs, d_request.devices),
              LAMBDA d : d.use)

\* the frame settings of the request are accepted for its launch mode
FrameSettingsOk ==
    _get_frame_settings(e_settings, scene_range,
                        d_request.prefs.launch_mode # "SINGLE_FRAME").exc = "none"

\* the frame domain of the request, as the frames a worker may render
RequestDomain ==
    CASE d_request.prefs.launch_mode = "SEQ" ->
             RangeFrames(scene_range[1], scene_range[2], scene_range[3])
      [] d_request.prefs.launch_mode = "LIST" ->
             Elems(parse_frame_string(e_settings.frame_list))
      [] OTHER -> {e_settings.frame_current}

\* the frames a generated worker script renders
ScriptFrames(script) ==
    IF script.is_animation
    THEN RangeFrames(script.frame_start, script.frame_end, script.frame_step)
    ELSE IF script.frames # <<>> THEN Elems(script.frames)
    ELSE IF script.renders = 0 THEN {}
    ELSE {script.frame_start}

\* C11: when parallel rendering is off, or only one usable device is selected
\* although parallel rendering is on, a Cycles request with an accepted frame
\* domain produces exactly one worker; its device list holds every device
\* the user selected and its frames are the full domain.
C11_SingleWorkerOwnsAll ==
    (/\ RequestDone /\ RequestValid /\ FrameSettingsOk
     /\ e_settings.engine = "CYCLES"
     /\ \/ ~d_request.prefs.device_parallel
        \/ Len(UserSelected) = 1)
    => /\ Len(scripts) = 1
       /\ ~timer
       /\ Len(d_workers) = 1
       /\ \A n \in 1..Len(UserSelected) : UserSelected[n].id \in Elems(d_workers[1])
       /\ ScriptFrames(scripts[1]) = RequestDomain

\* C12: if the device list resolved for a Cycles render is still empty after
\* the CPU fallback rules, the request ends with an error, no worker script
\* is written and no process is launched.
C12_EmptyDevicesRejected ==
    (/\ RequestDone /\ RequestValid
     /\ e_settings.engine = "CYCLES"
     /\ d_path # "none"
     /\ d_selected = <<>>)
    => /\ op_result \in {"CANCELLED", "EXCEPTION"}
       /\ scripts = <<>>
       /\ script_files = {}
       /\ procs = <<>>

\* prefs.devices of the request holds a CPU entry
CpuExists == \E n \in 1..Len(d_request.devices) : d_request.devices[n].type = "CPU"

\* the selection of the request after the combine filter of lines 322-329
FilteredSelected ==
    LET p == d_request.prefs
    IN  IF p.launch_mode \in {"SEQ", "LIST"} /\ p.device_parallel
        THEN SelectSeq(UserSelected,
                       LAMBDA d : ~p.combine_cpu_with_gpus \/ d.type # "CPU")
        ELSE UserSelected

\* the request falls back to the CPU
FallbackCase ==
    \/ d_request.prefs.compute_device_type = "NONE"
    \/ FilteredSelected = <<>>

\* C17: when no compute backend is configured, and when a backend is
\* configured but no device remains selected after filtering, the CPU
\* device is enabled, the device list the job is built from is non-empty and
\* holds the CPU device, and every generated worker script lists the CPU id
\* among its selected ids.
C17_CpuFallback ==
    (/\ RequestDone /\ RequestValid /\ FrameSettingsOk
     /\ e_settings.engine = "CYCLES"
     /\ CpuExists
     /\ FallbackCase)
    => /\ \A n \in 1..Len(d_devices) : d_devices[n].type = "CPU" => d_devices[n].use
       /\ d_selected # <<>>
       /\ CpuId \in Elems(Ids(d_selected))
       /\ scripts # <<>>
       /\ \A n \in 1..Len(d_workers) : CpuId \in Elems(d_workers[n])

\* C13: in frame-list mode, whenever the frame-list string resolves to no
\* frame (empty string, or a string such as "-" or "3-1"), the request ends
\* with an error and no worker process is launched, on the single-process
\* path and on the parallel path.
C13_EmptyFrameListRejected ==
    (/\ RequestDone
     /\ d_request.prefs.launch_mode = "LIST"
     /\ parse_frame_string(e_settings.frame_list) = <<>>)
    => /\ op_result = "CANCELLED"
       /\ procs = <<>>
       /\ launched = <<>>

\* a precondition of the request fails: unsaved file, invalid or mismatching
\* external scene data, failed auto-save, movie output in a non-sequence
\* mode, empty frame-list string, no camera
PreconditionFails ==
    LET s == e_settings
        mode == prefs.launch_mode
    IN  \/ ~s.use_external_blend /\ ~s.filepath_saved
        \/ s.use_external_blend /\ ~s.blend_is_file
        \/ s.use_external_blend
             /\ s.scene_info \in {"empty", "braces", "bad_json", "mismatch"}
        \/ ~s.use_external_blend /\ s.auto_save = "fails"
        \/ /\ ~s.file_format_override /\ mode # "SEQ"
           /\ (s.is_movie_format \/ (s.use_external_blend /\ s.scene_info = "ok_movie"))
        \/ mode = "LIST" /\ s.frame_list = <<>>
        \/ ~s.use_external_blend /\ ~s.camera
        \/ s.use_external_blend /\ s.scene_info = "ok_no_camera"

\* C14: if a precondition check of a render request fails, the request
\* returns CANCELLED before any chunk is computed, and the job id, the render
\* history, the render-button flag, the temp directory and the set of
\* running processes are exactly as before the request.
C14_RejectedRequestChangesNothing ==
    [][(op_result = "none" /\ op_result' # "none" /\ PreconditionFails) =>
          /\ op_result' = "CANCELLED"
          /\ UNCHANGED <<e_render_id, e_history, e_button, e_reset_timer>>
          /\ UNCHANGED <<scripts, script_files, markers, procs, launched, timer>>
          /\ UNCHANGED <<job_kind, job_num_devices, job_device_ranges, path_result>>
          /\ UNCHANGED <<prefs, dvars>>]_vars

\* C14 witness: a request on a saved scene without a camera was cancelled
C14_Witness ==
    /\ op_result = "CANCELLED"
    /\ ~e_settings.use_external_blend /\ e_settings.filepath_saved
    /\ ~e_settings.camera
    /\ e_render_id = 0 /\ e_history = <<>> /\ ~e_button
    /\ e_reports = <<"ERROR">>

\* C15: in sequence mode, when the effective frame start is >= the frame end
\* or the step is not positive, the request fails fast: no worker script is
\* written, no process is launched and nothing is clamped, the launch mode
\* and the frame values are the same after the failed request as before.
C15_InvalidRangeFailsFast ==
    [][(/\ op_result = "none" /\ op_result' # "none"
        /\ ~PreconditionFails
        /\ e_settings.engine \in SupportedEngines
        /\ prefs.launch_mode = "SEQ"
        /\ validate_frame_range(scene_range[1], scene_range[2], scene_range[3]) # "ok")
       => /\ op_result' # "FINISHED" \/ path_result' = "CANCELLED"
          /\ UNCHANGED <<scripts, script_files, procs, launched>>
          /\ prefs'.launch_mode = prefs.launch_mode
          /\ scene_range' = scene_range]_vars

\* C16: the status a request returns reflects what happened: CANCELLED when
\* it ended without launching any worker, FINISHED with the "launched"
\* report only when at least worker 0 was launched.
C16_StatusReflectsLaunch ==
    /\ (RequestDone /\ launched = <<>>) => op_result = "CANCELLED"
    /\ op_result = "FINISHED" => (launched # <<>> /\ launched[1].i = 0)
    /\ (\E n \in 1..Len(e_reports) : e_reports[n] = LaunchedReport[1])
          => launched # <<>>

MainScriptAt == CHOOSE k \in 1..Len(cmd_list) : cmd_list[k] = TempScriptPath

\* the arguments that follow a "-P" at the positions k..last-1 of cmd_list,
\* in order
RECURSIVE ScriptsPassed(_, _)
ScriptsPassed(k, last) ==
    IF k >= last
    THEN <<>>
    ELSE IF cmd_list[k] = "-P"
         THEN <<cmd_list[k + 1]>> \o ScriptsPassed(k + 2, last)
         ELSE ScriptsPassed(k + 1, last)

\* the hooks of one order the user configured that are usable, in list order
UsableHooks(order) ==
    LET usable == SelectSeq(c_prefs.additional_scripts,
                            LAMBDA h : /\ h.order = order
                                       /\ h.script_path # ""
                                       /\ abspath(h.script_path) \in c_files)
    IN  IF c_prefs.append_python_scripts
        THEN [n \in 1..Len(usable) |-> abspath(usable[n].script_path)]
        ELSE <<>>

\* C19: in the command line of a worker the scripts of all usable PRE hooks
\* come before the generated worker script and those of all usable POST
\* hooks after it, each group in the order of the user's list; a hook with
\* an empty path or a missing file is left out, and no hook is passed when
\* appending scripts is disabled.
C19_HookOrder ==
    c_pc = "launched" /\ cmd_list # <<>> =>
       /\ \E k \in 1..Len(cmd_list) : cmd_list[k] = TempScriptPath
       /\ cmd_list[MainScriptAt - 1] = "-P"
       /\ ScriptsPassed(1, MainScriptAt - 1) = UsableHooks("PRE")
       /\ ScriptsPassed(MainScriptAt + 1, Len(cmd_list)) = UsableHooks("POST")

\* C19 witness: a usable POST hook listed before a usable PRE hook and a
\* hook whose file is missing; the PRE hook is passed first, the missing one
\* is left out
C19_Witness ==
    /\ c_pc = "launched"
    /\ c_prefs.append_python_scripts
    /\ Len(c_prefs.additional_scripts) = 3
    /\ c_prefs.additional_scripts[1] = [order |-> "POST", script_path |-> "/b.py"]
    /\ c_prefs.additional_scripts[2] = [order |-> "PRE", script_path |-> "//a.py"]
    /\ c_prefs.additional_scripts[3].script_path = ""
    /\ c_files = {"/proj/a.py", "/b.py"}
    /\ ScriptsPassed(1, Len(cmd_list)) = <<"/proj/a.py", TempScriptPath, "/b.py">>

(***************************************************************************)
(* The launch chain of a parallel frame-list job (checked under Spec)      *)
(***************************************************************************)
\* C20: in a parallel frame-list render the launch chain processes exactly
\* the indices 0..W-1, W = min(selected devices, frames), and then stops:
\* it never reads a frame subset beyond the W computed ones and never emits
\* a worker with an empty subset, also with fewer frames than devices.
C20_ListChainInBounds ==
    job_kind = "LIST" =>
       LET W == Min(n_selected, Len(frame_list))
       IN  /\ ~chain_error
           /\ job_i <= W
           /\ timer => job_i < W
           /\ \A n \in 1..Len(scripts) :
                 /\ scripts[n].i < W
                 /\ scripts[n].frames # <<>>

(***************************************************************************)
(* Properties of a chain with a working user (checked under SpecS)         *)
(***************************************************************************)
\* C21: all workers of one request are generated from one snapshot of the
\* configuration: every worker embeds the same job id in its script name and
\* marker name, the same temp directory and the same synchronization flags
\* as worker 0, whatever the user changes or submits between two launches.
C21_OneSnapshot ==
    \A n \in 1..Len(s_scripts) :
       /\ s_scripts[n].process_id[1] = s_scripts[1].process_id[1]
       /\ s_scripts[n].script_dir = s_scripts[1].script_dir
       /\ s_scripts[n].creates_marker = s_scripts[1].creates_marker
       /\ s_scripts[n].creates_marker =>
             /\ s_scripts[n].marker[1] = s_scripts[1].marker[1]
             /\ s_scripts[n].marker[2] = s_scripts[1].marker[2]

(***************************************************************************)
(* Launch failures in a parallel job (checked under Spec)                  *)
(***************************************************************************)
\* C22: a failed launch of worker k is local to worker k: the workers
\* launched before it are not cancelled, and the launch of the workers
\* k+1..W-1 after it is not prevented (the chain stays scheduled).
C22_LaunchFailureLocal ==
    [][(Len(scripts') > Len(scripts) /\ Len(procs') = Len(procs)) =>
          /\ procs' = procs
          /\ launched' = launched
          /\ scripts'[Len(scripts')].i < job_num_devices' - 1 => timer']_vars

\* C23: whenever worker 0's script has the wait-for-all block, the number of
\* markers it waits for equals the number of workers of the job that are
\* actually launched once the chain has ended, also when the launch of a
\* worker k > 0 failed.
C23_WaitCountIsLaunched ==
    (job_kind # "none" /\ ~timer) =>
       \A w \in 1..Len(procs) :
          (procs[w].script.i = 0 /\ procs[w].script.waits) =>
             procs[w].script.num_processes = Len(launched)

(***************************************************************************)
(* Frame ordering and render mode (checked under SpecE)                    *)
(***************************************************************************)
\* C24: start < end is required only of a range rendered as an animation: a
\* still render and a frame-list render with frames are never rejected, and
\* never change the launch mode, because of frame_start and frame_end, on
\* the single-process path as on the parallel path.
C24_OrderingOnlyForAnimation ==
    [][(/\ op_result = "none" /\ op_result' # "none"
        /\ ~PreconditionFails
        /\ e_settings.engine \in SupportedEngines
        /\ prefs.launch_mode \in {"SINGLE_FRAME", "LIST"}
        /\ prefs.launch_mode = "LIST" => parse_frame_string(e_settings.frame_list) # <<>>)
       => /\ op_result' # "EXCEPTION"
          /\ prefs'.launch_mode = prefs.launch_mode]_vars

(***************************************************************************)
(* What device resolution leaves behind (checked under SpecD)              *)
(***************************************************************************)
\* C25: device resolution changes nothing in the preferences except the
\* 'use' flag of device entries set by the CPU fallback: the configured
\* compute backend and every device's id and type are the same after the
\* request as before it, on every path including both fallback paths.
C25_OnlyUseFlagChanges ==
    d_pc # "request" =>
       /\ d_prefs.compute_device_type = d_request.prefs.compute_device_type
       /\ Len(d_devices) = Len(d_request.devices)
       /\ \A n \in 1..Len(d_devices) :
             /\ d_devices[n].id = d_request.devices[n].id
             /\ d_devices[n].type = d_request.devices[n].type
             /\ d_devices[n].use # d_request.devices[n].use =>
                   (d_devices[n].type = "CPU" /\ d_devices[n].use)


\* a displayed CPU entry of the request is ticked
CpuTicked ==
    LET disp == get_devices_for_display(d_request.prefs, d_request.devices)
    IN  \E n \in 1..Len(disp) : disp[n].type = "CPU" /\ disp[n].use

\* the request renders in sequence or frame-list mode with parallel devices on
ParallelRequested ==
    /\ d_pc # "request"
    /\ d_request.prefs.device_parallel
    /\ d_request.prefs.launch_mode \in {"SEQ", "LIST"}

FlagGroups ==
    { <<"motion_blur_override", MotionBlurAttrs>>,
      <<"format_override", ResolutionAttrs>>,
      <<"file_format_override", OutputFormatAttrs>>,
      <<"compositor_override", CompositorAttrs>>,
      <<"device_override", CyclesDeviceAttrs>>,
      <<"sampling_override", SamplingAttrs>>,
      <<"light_path_override", LightPathAttrs>>,
      <<"performance_override", PerformanceAttrs>>,
      <<"eevee_override", EeveeAttrs>> }

\* C27 as stated: for every override group, the frame range included, the
\* script assigns scene settings of the group only when the group's
\* override flag is set.
C27_AsStated ==
    o_pc = "done" =>
       /\ \A g \in FlagGroups : (o_script \cap g[2] # {}) => o_settings[g[1]]
       /\ (o_script \cap FrameRangeAttrs # {}) => o_settings.frame_range_override

\* C27 (amended): for every override group except the frame range the script
\* assigns scene settings of the group only when the group's flag is set.
\* The frame settings are written whatever the frame range flag says: an
\* animation script always assigns frame_start, frame_end and frame_step, a
\* still or frame-list script always calls frame_set.
C27_OverridesGated ==
    o_pc = "done" =>
       /\ \A g \in FlagGroups : (o_script \cap g[2] # {}) => o_settings[g[1]]
       /\ IF PathIsAnimation(o_path)
          THEN FrameRangeAttrs \subseteq o_script
          ELSE "frame_set" \in o_script /\ o_script \cap FrameRangeAttrs = {}

\* C27 witness: a parallel sequence worker with only the sampling override
\* on: sampling is assigned, no other group, and the frame range is written
C27_Witness ==
    /\ o_pc = "done" /\ o_path.kind = "seq_parallel"
    /\ o_settings.sampling_override
    /\ \A f \in DOMAIN o_settings \ {"sampling_override", "resolution_override"} :
          ~o_settings[f]
    /\ SamplingAttrs \subseteq o_script
    /\ FrameRangeAttrs \subseteq o_script
    /\ o_script \cap (MotionBlurAttrs \cup ResolutionAttrs \cup LightPathAttrs) = {}

(***************************************************************************)
(* Properties of the external scene info (checked under SpecX)             *)
(***************************************************************************)
\* the stored info is not the scene record of the selected file
InfoNotOfSelected ==
    x_info.kind # "ok" \/ x_info.blend_filepath # bpy_path_abspath(x_path)

\* C28: a render of an external blend file F is launched only with a stored
\* scene record that was extracted from F, and a request made while the
\* stored info is an error record or belongs to another file is cancelled
\* and launches nothing, whatever the order of the extraction callbacks.
C28_LaunchOnlyWithOwnInfo ==
    [][ /\ (x_launched'.kind = "render" =>
               /\ x_launched'.info.kind = "ok"
               /\ x_launched'.info.blend_filepath = x_launched'.blend_file)
        /\ ((ExternalRenderRequest /\ InfoNotOfSelected) =>
               (x_result' = "CANCELLED" /\ x_launched' = x_launched))
      ]_vars

\* C28 witness: B is selected while the stored record is still that of A,
\* a read of A and a read of B are both on their way with their callbacks
\* pending, and the render request made in between was cancelled
C28_Witness ==
    /\ x_path = "/B.blend"
    /\ x_info.kind = "ok" /\ x_info.blend_filepath = "/A.blend"
    /\ x_result = "CANCELLED"
    /\ \E t, u \in 1..MaxExtractions :
          /\ x_threads[t].state = "timer"
          /\ x_threads[t].info_data.kind = "ok"
          /\ x_threads[t].info_data.blend_filepath = "/A.blend"
          /\ x_threads[u].state = "timer"
          /\ x_threads[u].info_data.kind = "ok"
          /\ x_threads[u].info_data.blend_filepath = "/B.blend"

(***************************************************************************)
(* Properties of the render history (checked under SpecH)                  *)
(***************************************************************************)
\* newest first: every entry is younger than the entry after it
ReverseChronological(h) ==
    \A i \in 1..(Len(h) - 1) : h[i].date > h[i + 1].date

\* C29: starting from a history of at most RENDER_HISTORY_LIMIT entries, the
\* history never holds more than the limit and is in reverse chronological
\* order; a request puts its entry at index 0, keeps the others in order,
\* and on overflow drops the last entry, which is the oldest.
C29_HistoryBounded ==
    [][ /\ Len(h_history') <= RENDER_HISTORY_LIMIT
        /\ ReverseChronological(h_history')
        /\ (HistoryRequest =>
              (/\ h_history'[1].date = h_clock'
               /\ \A e \in 2..Len(h_history') : h_history'[e] = h_history[e - 1]
               /\ IF Len(h_history) = RENDER_HISTORY_LIMIT
                  THEN /\ Len(h_history') = RENDER_HISTORY_LIMIT
                       /\ \A k \in 1..Len(h_history') :
                             h_history'[k].date > h_history[RENDER_HISTORY_LIMIT].date
                  ELSE Len(h_history') = Len(h_history) + 1))
      ]_vars

\* C29 witness: a full history took two more requests: the two oldest
\* entries are gone and the newest is at index 0
C29_Witness ==
    /\ Len(h_history) = RENDER_HISTORY_LIMIT
    /\ h_requests = 2
    /\ h_history[1].date = RENDER_HISTORY_LIMIT + 2
    /\ h_history[RENDER_HISTORY_LIMIT].date = 3

(***************************************************************************)
(* Properties of the append-scripts list (checked under SpecA)             *)
(***************************************************************************)
\* C30: after any sequence of the list operators, whenever the list is not
\* empty the active index is one of 0..len-1, and a move changes only the
\* order of the entries while the active index keeps pointing at the entry
\* that was moved.
C30_ActiveIndexValid ==
    [][ /\ (a_scripts' # <<>> => a_active' \in 0..(Len(a_scripts') - 1))
        /\ ((\E direction \in {"UP", "DOWN"} : ScriptMoveItem(direction)) =>
               (/\ Len(a_scripts') = Len(a_scripts)
                /\ \A e \in ScriptFiles \X {"PRE", "POST"} :
                      Cardinality({i \in 1..Len(a_scripts') :
                                     <<a_scripts'[i].script_path, a_scripts'[i].order>> = e})
                      = Cardinality({i \in 1..Len(a_scripts) :
                                     <<a_scripts[i].script_path, a_scripts[i].order>> = e})
                /\ (a_active \in 0..(Len(a_scripts) - 1) =>
                       a_scripts'[a_active' + 1] = a_scripts[a_active + 1])))
      ]_vars

====
